---- MODULE Spec2Model ----
(***************************************************************************)
(* Model of the MHBench topology / attack-graph core:                      *)
(*   src/src/models/attack_paths.py   (steps, paths, continuity)           *)
(*   src/src/models/attack_graph.py   (build, prune, validate)             *)
(*   src/src/models/network.py        (topology, subnet routing, checks)   *)
(*   src/src/topology_generator/*.py  (path and network generators)        *)
(*                                                                         *)
(* Identifiers produced by uuid4 are modelled as naturals.  Dictionaries   *)
(* are insertion ordered in Python, so graph.nodes and graph.edges are     *)
(* sequences in insertion order; a node or edge id is its creation rank.   *)
(***************************************************************************)
EXTENDS Naturals, Sequences, FiniteSets, TLC

VARIABLES generator, topology, attack_paths, previous_paths, attack_graph, rng,
          pc, raised,
          call, result,
          compute, deployer, host_deployer, host_builder, ansible_runner, clock

\* The arguments and the return value of the call under way.
invocation == <<call, result>>

\* The cloud's servers, the frames of the deployer, of the host deployer, of
\* the host builder and of the playbook runner, and the time.
orchestration == <<compute, deployer, host_deployer, host_builder, ansible_runner, clock>>

\* The topology, its generator and what is derived from them.
generation == <<generator, topology, attack_paths, previous_paths, attack_graph, rng>>

vars == <<generator, topology, attack_paths, previous_paths, attack_graph, rng,
          pc, raised, call, result,
          compute, deployer, host_deployer, host_builder, ansible_runner, clock>>

(***************************************************************************)
(* Bounds of the model.                                                    *)
(***************************************************************************)
MaxPaths == 2

(***************************************************************************)
(* Generic helpers.                                                        *)
(***************************************************************************)
Range(s) == { s[i] : i \in DOMAIN s }

RECURSIVE SeqsUpTo(_, _)
SeqsUpTo(S, n) ==
    IF n = 0 THEN { <<>> }
    ELSE LET shorter == SeqsUpTo(S, n - 1)
         IN  shorter \cup { Append(s, x) : s \in { t \in shorter : Len(t) = n - 1 }, x \in S }

(***************************************************************************)
(* vulnerabilities.py                                                      *)
(***************************************************************************)
NoVulnerability ==
    [type |-> "none", playbook_path |-> "", merge_strategy |-> "no_merge"]

ApacheStrutsVulnerability ==
    [type |-> "lateral_movement",
     playbook_path |-> "vulnerabilities/apacheStruts/setupStruts.yml",
     merge_strategy |-> "by_host"]

NetcatShellVulnerability ==
    [type |-> "lateral_movement",
     playbook_path |-> "vulnerabilities/NetcatShell.yml",
     merge_strategy |-> "by_host"]

LateralMovementVulnerability ==
    [type |-> "lateral_movement",
     playbook_path |-> "custom_lateral.yml",
     merge_strategy |-> "no_merge"]

SudoBaronVulnerability ==
    [type |-> "privilege_escalation",
     playbook_path |-> "vulnerabilities/privledge_escalation/sudobaron/sudobaron.yml",
     merge_strategy |-> "by_host"]

(***************************************************************************)
(* attack_paths.py: steps are a tagged variant.                            *)
(***************************************************************************)
LateralMovementStep(fh, th, fu, tu, v) ==
    [kind |-> "lm", from_host_id |-> fh, to_host_id |-> th,
     from_user_id |-> fu, to_user_id |-> tu, vulnerability |-> v]

PrivilegeEscalationStep(h, fu, tu, v) ==
    [kind |-> "pe", host_id |-> h,
     from_user_id |-> fu, to_user_id |-> tu, vulnerability |-> v]

get_source_host_id(step) ==
    IF step.kind = "lm" THEN step.from_host_id ELSE step.host_id

get_target_host_id(step) ==
    IF step.kind = "lm" THEN step.to_host_id ELSE step.host_id

get_source_user_id(step) == step.from_user_id

get_target_user_id(step) == step.to_user_id

AttackPath(id, sh, su, th, tu, steps) ==
    [id |-> id, start_host_id |-> sh, start_user_id |-> su,
     target_host_id |-> th, target_user_id |-> tu, steps |-> steps]

(***************************************************************************)
(* attack_graph.py                                                         *)
(***************************************************************************)
EmptyGraph == [nodes |-> <<>>, edges |-> <<>>, adjacency |-> <<>>]

AttackGraphNode(id, h, u) == [id |-> id, host_id |-> h, user_id |-> u]

AttackGraphEdge(id, f, t, lm, v) ==
    [id |-> id, from_node_id |-> f, to_node_id |-> t,
     is_lateral_movement |-> lm, vulnerability |-> v]

NodeIds(graph) == { graph.nodes[i].id : i \in DOMAIN graph.nodes }

NodeById(graph, nid) ==
    graph.nodes[CHOOSE i \in DOMAIN graph.nodes : graph.nodes[i].id = nid]

get_edges_from_node(graph, nid) ==
    SelectSeq(graph.edges, LAMBDA e : e.from_node_id = nid)

get_edges_to_node(graph, nid) ==
    SelectSeq(graph.edges, LAMBDA e : e.to_node_id = nid)

\* The first node with the identity, <<>> when there is none.
get_node_by_identity(graph, h, u) ==
    LET found == SelectSeq(graph.nodes, LAMBDA n : n.host_id = h /\ n.user_id = u)
    IN  IF found = <<>> THEN <<>> ELSE <<found[1]>>

\* get_or_create_node without the lookup: a node is created on every call.
get_or_create_node_Fresh(graph, h, u) ==
    LET node == AttackGraphNode(Len(graph.nodes) + 1, h, u)
    IN  [graph |-> [graph EXCEPT !.nodes = Append(@, node)], node |-> node]

\* nodes_by_identity holds exactly the nodes build_attack_graph created, so
\* the lookup by key is a lookup among graph.nodes.
get_or_create_node(graph, h, u) ==
    LET existing == get_node_by_identity(graph, h, u)
    IN  IF existing # <<>>
        THEN [graph |-> graph, node |-> existing[1]]
        ELSE LET node == AttackGraphNode(Len(graph.nodes) + 1, h, u)
             IN  [graph |-> [graph EXCEPT !.nodes = Append(@, node)], node |-> node]

\* graph.adjacency.setdefault(k, []).append(eid)
AdjacencyAppend(adjacency, k, eid) ==
    [x \in DOMAIN adjacency \cup {k} |->
        IF x = k
        THEN (IF k \in DOMAIN adjacency THEN Append(adjacency[k], eid) ELSE <<eid>>)
        ELSE adjacency[x]]

\* Faulty variant: only a lateral movement adds an edge; an escalation moves
\* to its node without one.
BuildStep_LateralOnly(graph, current_node, step) ==
    LET r == get_or_create_node(graph, get_target_host_id(step), step.to_user_id)
        edge == AttackGraphEdge(Len(graph.edges) + 1, current_node.id, r.node.id,
                                step.kind = "lm", step.vulnerability)
    IN  IF step.kind = "lm"
        THEN [graph |-> [r.graph EXCEPT
                           !.edges = Append(@, edge),
                           !.adjacency = AdjacencyAppend(@, current_node.id, edge.id)],
              node |-> r.node]
        ELSE r

\* One iteration of "for step in path.steps".
BuildStep(graph, current_node, step) ==
    LET r == get_or_create_node(graph, get_target_host_id(step), step.to_user_id)
        edge == AttackGraphEdge(Len(graph.edges) + 1, current_node.id, r.node.id,
                                step.kind = "lm", step.vulnerability)
    IN  [graph |-> [r.graph EXCEPT
                      !.edges = Append(@, edge),
                      !.adjacency = AdjacencyAppend(@, current_node.id, edge.id)],
         node |-> r.node]

RECURSIVE BuildSteps(_, _, _, _)
BuildSteps(graph, current_node, steps, i) ==
    IF i > Len(steps) THEN [graph |-> graph, node |-> current_node]
    ELSE LET r == BuildStep(graph, current_node, steps[i])
         IN  BuildSteps(r.graph, r.node, steps, i + 1)

\* Faulty variant: current_node is not re-initialised for a path after the first.
BuildPathStart_NoReset(graph, last_node, path) ==
    IF last_node = <<>>
    THEN get_or_create_node(graph, path.start_host_id, path.start_user_id)
    ELSE [graph |-> graph, node |-> last_node]

\* The state a path is built from: the graph so far and the path's first node.
BuildPathStart(graph, last_node, path) ==
    get_or_create_node(graph, path.start_host_id, path.start_user_id)

RECURSIVE BuildPaths(_, _, _, _)
BuildPaths(graph, last_node, paths, i) ==
    IF i > Len(paths) THEN graph
    ELSE LET s == BuildPathStart(graph, last_node, paths[i])
             r == BuildSteps(s.graph, s.node, paths[i].steps, 1)
         IN  BuildPaths(r.graph, r.node, paths, i + 1)

build_attack_graph(paths) == BuildPaths(EmptyGraph, <<>>, paths, 1)

IsByHost(e) ==
    e.vulnerability.type # "none" /\ e.vulnerability.merge_strategy = "by_host"

\* _merge_to_node: the edge rewrites and the node deletion happen before the
\* adjacency deletion, which raises KeyError for a node without an entry.
merge_to_node(graph, base_node, node_to_merge) ==
    LET m == node_to_merge.id
        edges == [i \in DOMAIN graph.edges |->
                    [graph.edges[i] EXCEPT
                       !.to_node_id = IF @ = m THEN base_node.id ELSE @,
                       !.from_node_id = IF @ = m THEN base_node.id ELSE @]]
        nodes == SelectSeq(graph.nodes, LAMBDA n : n.id # m)
    IN  IF m \in DOMAIN graph.adjacency
        THEN [graph |-> [nodes |-> nodes, edges |-> edges,
                         adjacency |-> [x \in DOMAIN graph.adjacency \ {m} |->
                                          graph.adjacency[x]]],
              raised |-> "none"]
        ELSE [graph |-> [nodes |-> nodes, edges |-> edges,
                         adjacency |-> graph.adjacency],
              raised |-> "KeyError"]

EdgeById(graph, eid) ==
    graph.edges[CHOOSE i \in DOMAIN graph.edges : graph.edges[i].id = eid]

\* Faulty variant: the comparison of the two to-nodes is inverted, so the
\* representative node is merged into itself and deleted.
RECURSIVE PruneMerge_Inverted(_, _, _, _)
PruneMerge_Inverted(graph, representative_to_node, by_host_ids, k) ==
    IF k > Len(by_host_ids) THEN [graph |-> graph, raised |-> "none"]
    ELSE LET to_id == EdgeById(graph, by_host_ids[k]).to_node_id
         IN  IF to_id = representative_to_node.id /\ to_id \in NodeIds(graph)
             THEN LET r == merge_to_node(graph, representative_to_node,
                                         NodeById(graph, to_id))
                  IN  IF r.raised # "none" THEN r
                      ELSE PruneMerge_Inverted(r.graph, representative_to_node,
                                               by_host_ids, k + 1)
             ELSE PruneMerge_Inverted(graph, representative_to_node, by_host_ids, k + 1)

\* "for edge in by_host_edges[1:]": the edge objects are shared with the
\* graph, so each is read in its current (possibly rewritten) state.
RECURSIVE PruneMerge(_, _, _, _)
PruneMerge(graph, representative_to_node, by_host_ids, k) ==
    IF k > Len(by_host_ids) THEN [graph |-> graph, raised |-> "none"]
    ELSE LET to_node == NodeById(graph, EdgeById(graph, by_host_ids[k]).to_node_id)
         IN  IF to_node.id # representative_to_node.id
             THEN LET r == merge_to_node(graph, representative_to_node, to_node)
                  IN  IF r.raised # "none" THEN r
                      ELSE PruneMerge(r.graph, representative_to_node, by_host_ids, k + 1)
             ELSE PruneMerge(graph, representative_to_node, by_host_ids, k + 1)

\* The body of "for node_id in graph.nodes.keys()".
PruneNode(graph, node_id) ==
    LET edges == get_edges_to_node(graph, node_id)
        by_host_edges == SelectSeq(edges, IsByHost)
    IN  IF Len(by_host_edges) > 1
        THEN PruneMerge(graph,
                        NodeById(graph, by_host_edges[1].to_node_id),
                        [i \in DOMAIN by_host_edges |-> by_host_edges[i].id], 2)
        ELSE [graph |-> graph, raised |-> "none"]

\* The loop iterates the live dictionary: once its size has changed the next
\* advance of the iterator raises RuntimeError.
RECURSIVE PruneLoop(_, _, _)
PruneLoop(graph, keys, k) ==
    IF Len(graph.nodes) # Len(keys) THEN [graph |-> graph, raised |-> "RuntimeError"]
    ELSE IF k > Len(keys) THEN [graph |-> graph, raised |-> "none"]
    ELSE LET r == PruneNode(graph, keys[k])
         IN  IF r.raised # "none" THEN r ELSE PruneLoop(r.graph, keys, k + 1)

prune_edges_by_host(graph) ==
    IF graph.edges = <<>> THEN [graph |-> graph, raised |-> "none"]
    ELSE PruneLoop(graph, [i \in DOMAIN graph.nodes |-> graph.nodes[i].id], 1)


\* validate_all_goal_nodes_exist returning early on a graph without nodes, as
\* validate_all_nodes_connected does.
validate_all_goal_nodes_exist_EmptyOk(graph, goals) ==
    IF graph.nodes = <<>> THEN "none"
    ELSE IF \E i \in DOMAIN goals :
               get_node_by_identity(graph, goals[i].target_host_id,
                                    goals[i].target_user_id) = <<>>
    THEN "GoalNodeMissing" ELSE "none"

\* "none", or the exception raised for the first goal without a node.
validate_all_goal_nodes_exist(graph, goals) ==
    LET missing(goal) ==
            get_node_by_identity(graph, goal.target_host_id, goal.target_user_id) = <<>>
    IN  IF \E i \in DOMAIN goals : missing(goals[i]) THEN "GoalNodeMissing" ELSE "none"

\* undirected_adj is built from graph.adjacency; an edge id absent from
\* graph.edges is skipped.
UndirectedAdj(graph) ==
    [n \in NodeIds(graph) |->
        { e.to_node_id : e \in { x \in Range(graph.edges) :
              \E k \in DOMAIN graph.adjacency :
                  /\ k = n
                  /\ x.id \in Range(graph.adjacency[k]) } }
        \cup
        { k \in DOMAIN graph.adjacency :
              \E x \in Range(graph.edges) :
                  /\ x.id \in Range(graph.adjacency[k])
                  /\ x.to_node_id = n }]

RECURSIVE Visit(_, _, _)
Visit(adj, visited, frontier) ==
    IF frontier = {} THEN visited
    ELSE LET next == UNION { IF n \in DOMAIN adj THEN adj[n] ELSE {} : n \in frontier }
         IN  Visit(adj, visited \cup frontier, next \ (visited \cup frontier))

\* Returns the set of unreachable node ids; the graph is connected when it is
\* empty.  The scan starts from next(iter(graph.nodes)).
validate_all_nodes_connected(graph) ==
    IF graph.nodes = <<>> THEN {}
    ELSE NodeIds(graph) \ Visit(UndirectedAdj(graph), {}, {graph.nodes[1].id})

validate_attack_graph(graph, goals) ==
    IF validate_all_nodes_connected(graph) # {} THEN "NotConnected"
    ELSE validate_all_goal_nodes_exist(graph, goals)

(***************************************************************************)
(* attack_paths.py: AttackPath helpers.                                    *)
(***************************************************************************)
get_hop_host_ids(path) ==
    <<path.start_host_id>> \o
    [i \in DOMAIN path.steps |-> get_target_host_id(path.steps[i])]

get_all_host_ids(path) == Range(get_hop_host_ids(path))

\* One iteration of "for i in range(len(self.steps) - 1)": FALSE where the
\* loop returns False.  The user handoff is compared only after a privilege
\* escalation (a UUID is always truthy).
StepConnects(current_step, next_step) ==
    /\ get_target_host_id(current_step) = get_source_host_id(next_step)
    /\ current_step.kind = "pe" => current_step.to_user_id = next_step.from_user_id

validate_path_continuity(path) ==
    IF path.steps = <<>> THEN FALSE
    ELSE IF \/ get_source_host_id(path.steps[1]) # path.start_host_id
            \/ get_source_user_id(path.steps[1]) # path.start_user_id
    THEN FALSE
    ELSE IF \E i \in 1..(Len(path.steps) - 1) :
                ~StepConnects(path.steps[i], path.steps[i + 1])
    THEN FALSE
    ELSE IF \/ get_target_host_id(path.steps[Len(path.steps)]) # path.target_host_id
            \/ get_target_user_id(path.steps[Len(path.steps)]) # path.target_user_id
    THEN FALSE
    ELSE TRUE

(***************************************************************************)
(* components.py, network.py: users, hosts, subnets, the topology.  The    *)
(* networks of a topology are flattened to the list of their subnets, as   *)
(* get_all_subnets does.                                                   *)
(***************************************************************************)
User(id, username) == [id |-> id, username |-> username]

\* The root user's id is ten times the host's id, the other user's one more.
create_default_root_user(host_id) == User(10 * host_id, "root")

\* Host with the _ensure_root_user fixup of its constructor.
Host(id, users) ==
    [id |-> id,
     users |-> IF \E i \in DOMAIN users : users[i].username = "root"
               THEN users
               ELSE Append(users, create_default_root_user(id)),
     vulnerabilities |-> <<>>]

Subnet(name, external, hosts) == [name |-> name, external |-> external, hosts |-> hosts]

\* protocol and ports are <<>> for None (everything allowed), else a
\* one-element sequence holding the protocol or the list of ports.
FilteredSubnetConnection(from_subnet, to_subnet, bidirectional, protocol, ports) ==
    [from_subnet |-> from_subnet, to_subnet |-> to_subnet, bidirectional |-> bidirectional,
     protocol |-> protocol, ports |-> ports]

SubnetConnection(from_subnet, to_subnet, bidirectional) ==
    FilteredSubnetConnection(from_subnet, to_subnet, bidirectional, <<>>, <<>>)

\* attacker_host is <<>> for None, else a one-element sequence.
NetworkTopology(subnets, subnet_connections, goals, attacker_host) ==
    [name |-> "topology", subnets |-> subnets, subnet_connections |-> subnet_connections,
     goals |-> goals, attacker_host |-> attacker_host]

create_default_external_attacker == Host(0, <<>>)

get_all_subnets(topo) == topo.subnets

RECURSIVE Flatten(_)
Flatten(ss) == IF ss = <<>> THEN <<>> ELSE Head(ss) \o Flatten(Tail(ss))

get_all_hosts(topo, include_attacker) ==
    Flatten([i \in DOMAIN topo.subnets |-> topo.subnets[i].hosts]) \o
    (IF include_attacker THEN topo.attacker_host ELSE <<>>)

\* Faulty variant: only the from_subnet of a connection is looked up.
validate_subnet_connectivity_FromOnly(topo) ==
    LET all_subnet_names == { topo.subnets[i].name : i \in DOMAIN topo.subnets }
    IN  SelectSeq(topo.subnet_connections,
                  LAMBDA conn : conn.from_subnet \notin all_subnet_names)

\* The connections that produce an error message.
validate_subnet_connectivity(topo) ==
    LET all_subnet_names == { topo.subnets[i].name : i \in DOMAIN topo.subnets }
    IN  SelectSeq(topo.subnet_connections,
                  LAMBDA conn : \/ conn.from_subnet \notin all_subnet_names
                                \/ conn.to_subnet \notin all_subnet_names)

\* The check of one attack path in _validate_topology.
PathError(all_host_ids, path) ==
    IF get_all_host_ids(path) \ all_host_ids # {} THEN "UnknownHostIds"
    ELSE IF ~validate_path_continuity(path) THEN "DiscontinuousSteps"
    ELSE "none"

\* _validate_topology: the exception raised, "none" when the topology is
\* accepted.  The first offending path raises.
validate_topology(topo, paths) ==
    LET all_host_ids == { h.id : h \in Range(get_all_hosts(topo, TRUE)) }
        bad == SelectSeq(paths, LAMBDA path : PathError(all_host_ids, path) # "none")
    IN  IF bad # <<>> THEN PathError(all_host_ids, bad[1])
        ELSE IF validate_subnet_connectivity(topo) # <<>> THEN "SubnetConnectivity"
        ELSE "none"

(***************************************************************************)
(* network.py: lookups and subnet routing.                                 *)
(***************************************************************************)
\* Faulty variant: the id comparison is lost, the first host is returned.
get_host_by_id_First(topo, host_id, include_attacker) ==
    LET hosts == get_all_hosts(topo, include_attacker)
    IN  IF hosts = <<>> THEN <<>> ELSE <<hosts[1]>>

\* <<>> for None, else the first host with the id.
get_host_by_id(topo, host_id, include_attacker) ==
    LET found == SelectSeq(get_all_hosts(topo, include_attacker),
                           LAMBDA h : h.id = host_id)
    IN  IF found = <<>> THEN <<>> ELSE <<found[1]>>

get_user_by_username(host, username) ==
    LET found == SelectSeq(host.users, LAMBDA u : u.username = username)
    IN  IF found = <<>> THEN <<>> ELSE <<found[1]>>

\* Every Host has a root user (_ensure_root_user).
get_root_user(host) == get_user_by_username(host, "root")[1]

get_subnet_by_name(topo, name) ==
    LET found == SelectSeq(get_all_subnets(topo), LAMBDA sn : sn.name = name)
    IN  IF found = <<>> THEN <<>> ELSE <<found[1]>>

get_subnet_for_host(topo, host) ==
    LET found == SelectSeq(get_all_subnets(topo), LAMBDA sn : host \in Range(sn.hosts))
    IN  IF found = <<>> THEN <<>> ELSE <<found[1]>>

\* conn.allows_traffic(protocol, port)
allows_traffic(conn, protocol, port) ==
    IF conn.protocol # <<>> /\ conn.protocol[1] # protocol THEN FALSE
    ELSE IF conn.ports # <<>> /\ port \notin conn.ports[1] THEN FALSE
    ELSE TRUE

\* "for conn in self.subnet_connections" from connection k on: the first
\* connection matching the pair decides.  protocol and port are <<>> for
\* None, else one-element sequences.
RECURSIVE CommunicateLoop(_, _, _, _, _, _)
CommunicateLoop(topo, from_subnet, to_subnet, protocol, port, k) ==
    IF k > Len(topo.subnet_connections) THEN FALSE
    ELSE LET conn == topo.subnet_connections[k]
         IN  IF \/ conn.from_subnet = from_subnet /\ conn.to_subnet = to_subnet
                \/ /\ conn.bidirectional
                   /\ conn.from_subnet = to_subnet
                   /\ conn.to_subnet = from_subnet
             THEN IF protocol # <<>> /\ port # <<>>
                  THEN allows_traffic(conn, protocol[1], port[1])
                  ELSE TRUE
             ELSE CommunicateLoop(topo, from_subnet, to_subnet, protocol, port, k + 1)

can_subnets_communicate(topo, from_subnet, to_subnet, protocol, port) ==
    IF from_subnet = to_subnet THEN TRUE
    ELSE CommunicateLoop(topo, from_subnet, to_subnet, protocol, port, 1)

\* BfsConnections following every connection in both directions.
RECURSIVE BfsConnections_AnyDirection(_, _, _, _, _, _, _)
BfsConnections_AnyDirection(topo, to_subnet, current_subnet, path, queue, visited, k) ==
    IF k > Len(topo.subnet_connections)
    THEN [done |-> FALSE, found |-> <<>>, queue |-> queue, visited |-> visited]
    ELSE LET conn == topo.subnet_connections[k]
             next_subnet ==
                 IF conn.from_subnet = current_subnet THEN <<conn.to_subnet>>
                 ELSE IF conn.to_subnet = current_subnet
                      THEN <<conn.from_subnet>>
                      ELSE <<>>
         IN  IF next_subnet # <<>> /\ next_subnet[1] # "" /\ next_subnet[1] \notin visited
             THEN IF next_subnet[1] = to_subnet
                  THEN [done |-> TRUE, found |-> path \o next_subnet,
                        queue |-> queue, visited |-> visited]
                  ELSE BfsConnections_AnyDirection(topo, to_subnet, current_subnet, path,
                           Append(queue, [subnet |-> next_subnet[1],
                                          path |-> path \o next_subnet]),
                           visited \cup { next_subnet[1] }, k + 1)
             ELSE BfsConnections_AnyDirection(topo, to_subnet, current_subnet, path,
                                              queue, visited, k + 1)

\* "for conn in self.subnet_connections" for one dequeued (subnet, path).
\* "if next_subnet and ..." also skips an empty name.
RECURSIVE BfsConnections(_, _, _, _, _, _, _)
BfsConnections(topo, to_subnet, current_subnet, path, queue, visited, k) ==
    IF k > Len(topo.subnet_connections)
    THEN [done |-> FALSE, found |-> <<>>, queue |-> queue, visited |-> visited]
    ELSE LET conn == topo.subnet_connections[k]
             next_subnet ==
                 IF conn.from_subnet = current_subnet THEN <<conn.to_subnet>>
                 ELSE IF conn.bidirectional /\ conn.to_subnet = current_subnet
                      THEN <<conn.from_subnet>>
                      ELSE <<>>
         IN  IF next_subnet # <<>> /\ next_subnet[1] # "" /\ next_subnet[1] \notin visited
             THEN IF next_subnet[1] = to_subnet
                  THEN [done |-> TRUE, found |-> path \o next_subnet,
                        queue |-> queue, visited |-> visited]
                  ELSE BfsConnections(topo, to_subnet, current_subnet, path,
                           Append(queue, [subnet |-> next_subnet[1],
                                          path |-> path \o next_subnet]),
                           visited \cup { next_subnet[1] }, k + 1)
             ELSE BfsConnections(topo, to_subnet, current_subnet, path,
                                 queue, visited, k + 1)

\* "while queue": <<>> when the queue runs empty (None).
RECURSIVE BfsLoop(_, _, _, _)
BfsLoop(topo, to_subnet, queue, visited) ==
    IF queue = <<>> THEN <<>>
    ELSE LET r == BfsConnections(topo, to_subnet, Head(queue).subnet, Head(queue).path,
                                 Tail(queue), visited, 1)
         IN  IF r.done THEN r.found
             ELSE BfsLoop(topo, to_subnet, r.queue, r.visited)

find_subnet_path(topo, from_subnet, to_subnet) ==
    IF from_subnet = to_subnet THEN <<from_subnet>>
    ELSE BfsLoop(topo, to_subnet,
                 << [subnet |-> from_subnet, path |-> <<from_subnet>>] >>, { from_subnet })

(***************************************************************************)
(* goals.py                                                                *)
(***************************************************************************)
Goal(target_host_id, target_user_id) ==
    [type |-> "Goal", target_host_id |-> target_host_id,
     target_user_id |-> target_user_id, host_user |-> ""]

JSONDataExfiltrationGoal(target_host_id, target_user_id, host_user) ==
    [type |-> "JSONDataExfiltrationGoal", target_host_id |-> target_host_id,
     target_user_id |-> target_user_id, host_user |-> host_user]

(***************************************************************************)
(* The random module.  rng.stream is the part of the seeded generator's    *)
(* output revealed so far, rng.pos the number of values consumed since the *)
(* last random.seed; rng.uuids counts the uuid4 values issued (these come  *)
(* from os.urandom, not from the seeded generator).  A value of the stream *)
(* is the index random.choice picks.                                       *)
(***************************************************************************)
\* The values the k-th draw after `known` values may take for a sequence.
Draws(known, k, seq) ==
    IF k <= Len(known) THEN { known[k] % Len(seq) } ELSE 0..(Len(seq) - 1)

random_choice(seq, d) == seq[d + 1]

\* The stream left to replay from the current position.
KnownDraws == SubSeq(rng.stream, rng.pos + 1, Len(rng.stream))

\* rng after consuming draws (a sequence extending or replaying KnownDraws)
\* and issuing n uuids.
Consume(draws, n) ==
    [stream |-> IF rng.pos + Len(draws) > Len(rng.stream)
                THEN SubSeq(rng.stream, 1, rng.pos) \o draws
                ELSE rng.stream,
     pos |-> rng.pos + Len(draws),
     uuids |-> rng.uuids + n]

(***************************************************************************)
(* attack_path_generator.py                                                *)
(***************************************************************************)
get_external_subnet(topo) ==
    LET found == SelectSeq(get_all_subnets(topo), LAMBDA sn : sn.external)
    IN  IF found = <<>> THEN <<>> ELSE <<found[1]>>

get_non_root_user(host) ==
    LET found == SelectSeq(host.users, LAMBDA u : u.username # "root")
    IN  IF found = <<>> THEN <<>> ELSE <<found[1]>>

resolve_goal_target_user(topo, goal, target_host) ==
    IF /\ goal.type = "JSONDataExfiltrationGoal"
       /\ get_user_by_username(target_host, goal.host_user) # <<>>
    THEN get_user_by_username(target_host, goal.host_user)[1]
    ELSE get_root_user(target_host)

\* Faulty variant: the pivot user is always root.
NonRootOrRoot_Root(host) == get_root_user(host)

\* self._get_non_root_user(host) or host.get_root_user()
NonRootOrRoot(host) ==
    IF get_non_root_user(host) # <<>> THEN get_non_root_user(host)[1]
    ELSE get_root_user(host)

\* "for i in range(1, len(subnet_path))": the set of outcomes, one per
\* choice of pivot hosts.  st = [steps, current_host, current_user, draws].
RECURSIVE WalkSubnets(_, _, _, _, _)
WalkSubnets(topo, subnet_path, i, st, known) ==
    IF i > Len(subnet_path) THEN { st }
    ELSE LET next_subnet == get_subnet_by_name(topo, subnet_path[i])
         IN  IF next_subnet = <<>> \/ next_subnet[1].hosts = <<>>
             THEN WalkSubnets(topo, subnet_path, i + 1, st, known)
             ELSE UNION {
                    LET next_host == random_choice(next_subnet[1].hosts, d)
                        next_user == NonRootOrRoot(next_host)
                    IN  WalkSubnets(topo, subnet_path, i + 1,
                            [steps |-> Append(st.steps,
                                 LateralMovementStep(st.current_host.id, next_host.id,
                                     st.current_user.id, next_user.id, NoVulnerability)),
                             current_host |-> next_host,
                             current_user |-> next_user,
                             draws |-> Append(st.draws, d)],
                            known) :
                    d \in Draws(known, Len(st.draws) + 1, next_subnet[1].hosts) }

\* The last hop to the target host when the final pivot is another host.
LastHop(st, target_host) ==
    IF st.current_host.id # target_host.id
    THEN LET next_user == NonRootOrRoot(target_host)
         IN  [st EXCEPT
                !.steps = Append(@, LateralMovementStep(st.current_host.id, target_host.id,
                                     st.current_user.id, next_user.id, NoVulnerability)),
                !.current_host = target_host,
                !.current_user = next_user]
    ELSE st

\* Faulty variant: the path stops as the user it arrived with.
Escalate_Never(st, target_host, target_user) == st

\* The escalation to the goal's user when the acting user is another one.
Escalate(st, target_host, target_user) ==
    IF st.current_user.id # target_user.id
    THEN [st EXCEPT !.steps = Append(@, PrivilegeEscalationStep(target_host.id,
                                   st.current_user.id, target_user.id, NoVulnerability))]
    ELSE st

\* "if not steps": a trivial chain through root for an empty step list.
TrivialChain(st, target_host, target_user) ==
    IF st.steps = <<>>
    THEN LET root_user == get_root_user(target_host)
             viaRoot ==
                 IF st.current_user.id # root_user.id
                 THEN [st EXCEPT
                         !.steps = Append(@, PrivilegeEscalationStep(target_host.id,
                                        st.current_user.id, root_user.id, NoVulnerability)),
                         !.current_user = root_user]
                 ELSE st
         IN  IF viaRoot.current_user.id # target_user.id
             THEN [viaRoot EXCEPT
                     !.steps = Append(@, PrivilegeEscalationStep(target_host.id,
                                    viaRoot.current_user.id, target_user.id,
                                    NoVulnerability))]
             ELSE viaRoot
    ELSE st

\* The body of "for goal in topology.goals" for a goal whose host exists:
\* the set of [path, draws], one per random choice.  known are the values
\* the seeded generator will return, path_id the uuid4 of the new path.
GoalPaths(topo, external_subnet, goal, target_host, known, path_id) ==
    LET attacker_host == topo.attacker_host[1]
        attacker_user == get_root_user(attacker_host)
        target_user == resolve_goal_target_user(topo, goal, target_host)
        to_subnet == get_subnet_for_host(topo, target_host)
    IN  UNION { UNION {
          LET current_host == random_choice(external_subnet.hosts, d1)
              current_user == random_choice(current_host.users, d2)
              first == [steps |-> << LateralMovementStep(attacker_host.id, current_host.id,
                                        attacker_user.id, current_user.id, NoVulnerability) >>,
                        current_host |-> current_host,
                        current_user |-> current_user,
                        draws |-> <<d1, d2>>]
              from_subnet == get_subnet_for_host(topo, current_host)
              found == IF from_subnet # <<>> /\ to_subnet # <<>>
                       THEN find_subnet_path(topo, from_subnet[1].name, to_subnet[1].name)
                       ELSE <<>>
              subnet_path == IF found # <<>> THEN found
                             ELSE IF from_subnet # <<>> THEN <<from_subnet[1].name>>
                             ELSE <<>>
          IN  { LET fin == TrivialChain(Escalate(LastHop(st, target_host),
                                                 target_host, target_user),
                                        target_host, target_user)
                IN  [path |-> AttackPath(path_id, attacker_host.id, attacker_user.id,
                                         target_host.id, target_user.id, fin.steps),
                     draws |-> fin.draws] :
                st \in WalkSubnets(topo, subnet_path, 2, first, known) } :
          d2 \in Draws(known, 2, random_choice(external_subnet.hosts, d1).users) } :
          d1 \in Draws(known, 1, external_subnet.hosts) }

\* "for goal in topology.goals" from goal i on: the set of outcomes
\* [paths, draws, raised] that extend acc.
RECURSIVE GoalLoop(_, _, _, _, _, _)
GoalLoop(topo, external_subnet, i, acc, known, first_id) ==
    IF i > Len(topo.goals) THEN { acc }
    ELSE LET target_host == get_host_by_id(topo, topo.goals[i].target_host_id, FALSE)
         IN  IF target_host = <<>>
             THEN { [acc EXCEPT !.paths = <<>>, !.raised = "TargetHostNotFound"] }
             ELSE UNION {
                    GoalLoop(topo, external_subnet, i + 1,
                             [paths |-> Append(acc.paths, o.path),
                              draws |-> acc.draws \o o.draws,
                              raised |-> "none"],
                             known, first_id) :
                    o \in GoalPaths(topo, external_subnet, topo.goals[i], target_host[1],
                                    SubSeq(known, Len(acc.draws) + 1, Len(known)),
                                    first_id + i) }

\* The set of possible results [paths, draws, raised] of one call.
generate_paths_for_topology(topo, known, first_id) ==
    LET external_subnet == get_external_subnet(topo)
        start == [paths |-> <<>>, draws |-> <<>>, raised |-> "none"]
    IN  IF external_subnet = <<>> \/ external_subnet[1].hosts = <<>>
        THEN { start }
        ELSE IF topo.attacker_host = <<>>
        THEN { [start EXCEPT !.raised = "AttackerHostNotFound"] }
        ELSE GoalLoop(topo, external_subnet[1], 1, start, known, first_id)

(***************************************************************************)
(* Values of the variables a specification does not use.                   *)
(***************************************************************************)
NoTopology == [name |-> "none"]

NoRng == [stream |-> <<>>, pos |-> 0, uuids |-> 0]

NoGenerator == [name |-> "none"]

NoFrame == [name |-> "none"]

NoInvocation == call = NoFrame /\ result = NoFrame

NoOrchestration ==
    /\ compute = NoFrame
    /\ deployer = NoFrame
    /\ host_deployer = NoFrame
    /\ host_builder = NoFrame
    /\ ansible_runner = NoFrame
    /\ clock = 0

(***************************************************************************)
(* SpecGraph: attack paths of a topology specification are given; the      *)
(* graph is built from them and pruned, and pruned again.                  *)
(***************************************************************************)
\* (host_id, user_id) identities: the attacker's root, host 1's root and
\* user, host 2's root.  A user id is ten times its host's id for root, one
\* more for the host's other user.
AttackerIdentity == <<0, 0>>

GraphIdentities == { <<1, 10>>, <<1, 11>>, <<2, 20>> }

\* The step from identity a to identity b; lmv is the vulnerability assigned
\* to the lateral movements of the path.
StepBetween(a, b, lmv) ==
    IF a[1] # b[1]
    THEN LateralMovementStep(a[1], b[1], a[2], b[2], lmv)
    ELSE PrivilegeEscalationStep(a[1], a[2], b[2], SudoBaronVulnerability)

\* Continuous step sequences from cur that visit each identity of avail at
\* most once.
RECURSIVE StepSeqs(_, _, _)
StepSeqs(cur, avail, lmv) ==
    { <<>> } \cup
    UNION { { <<StepBetween(cur, n, lmv)>> \o t : t \in StepSeqs(n, avail \ {n}, lmv) } :
            n \in avail }

GraphPaths ==
    { AttackPath(0, AttackerIdentity[1], AttackerIdentity[2],
                 get_target_host_id(s[Len(s)]), s[Len(s)].to_user_id, s) :
        s \in UNION { StepSeqs(AttackerIdentity, GraphIdentities, lmv) \ { <<>> } :
                      lmv \in { ApacheStrutsVulnerability, LateralMovementVulnerability } } }

GraphPathLists ==
    { [i \in DOMAIN l |-> [l[i] EXCEPT !.id = i]] : l \in SeqsUpTo(GraphPaths, MaxPaths) }

InitGraph ==
    /\ topology = NoTopology
    /\ rng = NoRng
    /\ generator = NoGenerator
    /\ NoInvocation
    /\ NoOrchestration
    /\ attack_paths \in GraphPathLists
    /\ previous_paths = <<>>
    /\ attack_graph = EmptyGraph
    /\ pc = "paths"
    /\ raised = "none"

BuildAttackGraph ==
    /\ pc = "paths"
    /\ attack_graph' = build_attack_graph(attack_paths)
    /\ pc' = "built"
    /\ UNCHANGED <<generator, topology, attack_paths, previous_paths, rng, raised>>
    /\ UNCHANGED <<invocation, orchestration>>

PruneEdgesByHost ==
    /\ pc = "built"
    /\ LET r == prune_edges_by_host(attack_graph)
       IN  /\ attack_graph' = r.graph
           /\ raised' = r.raised
    /\ pc' = "pruned"
    /\ UNCHANGED <<generator, topology, attack_paths, previous_paths, rng>>
    /\ UNCHANGED <<invocation, orchestration>>

\* A second application to the same graph object.
PruneEdgesByHostAgain ==
    /\ pc = "pruned"
    /\ LET r == prune_edges_by_host(attack_graph)
       IN  /\ attack_graph' = r.graph
           /\ raised' = r.raised
    /\ pc' = "pruned2"
    /\ UNCHANGED <<generator, topology, attack_paths, previous_paths, rng>>
    /\ UNCHANGED <<invocation, orchestration>>

NextGraph == BuildAttackGraph \/ PruneEdgesByHost \/ PruneEdgesByHostAgain

SpecGraph == InitGraph /\ [][NextGraph]_vars


(***************************************************************************)
(* Claims about the attack graph (SpecGraph).                              *)
(***************************************************************************)
Identity(graph, nid) ==
    LET n == NodeById(graph, nid) IN <<n.host_id, n.user_id>>

SameKind(v, w) == v.type = w.type /\ v.playbook_path = w.playbook_path

\* Pairs of lateral-movement edges of the built graph from distinct sources
\* to distinct nodes, both carrying a BY_HOST vulnerability of the same kind.
ByHostPairs(pre) ==
    { p \in (DOMAIN pre.edges) \X (DOMAIN pre.edges) :
        LET e == pre.edges[p[1]]
            f == pre.edges[p[2]]
        IN  /\ p[1] < p[2]
            /\ e.is_lateral_movement /\ f.is_lateral_movement
            /\ e.from_node_id # f.from_node_id
            /\ e.to_node_id # f.to_node_id
            /\ IsByHost(e) /\ IsByHost(f)
            /\ SameKind(e.vulnerability, f.vulnerability) }

C2_PruneIdempotent ==
    [][(pc = "pruned" /\ pc' = "pruned2") =>
          /\ attack_graph'.nodes = attack_graph.nodes
          /\ attack_graph'.edges = attack_graph.edges
          /\ raised' = "none"]_vars

\* The pruning loop found a node with more than one incoming BY_HOST edge,
\* and the graph has been pruned twice.
C2_Witness ==
    /\ pc = "pruned2"
    /\ \E n \in NodeIds(attack_graph) :
          Len(SelectSeq(get_edges_to_node(attack_graph, n), IsByHost)) > 1

EdgeViews(graph) ==
    [i \in DOMAIN graph.edges |->
        [from |-> Identity(graph, graph.edges[i].from_node_id),
         to |-> Identity(graph, graph.edges[i].to_node_id),
         is_lateral_movement |-> graph.edges[i].is_lateral_movement,
         vulnerability |-> graph.edges[i].vulnerability]]

CountOf(s, x) == Cardinality({ i \in DOMAIN s : s[i] = x })

SameMultiset(s, t) ==
    /\ Len(s) = Len(t)
    /\ \A x \in Range(s) \cup Range(t) : CountOf(s, x) = CountOf(t, x)

NodeIdentities(graph) ==
    { <<graph.nodes[i].host_id, graph.nodes[i].user_id>> : i \in DOMAIN graph.nodes }

Isomorphic(g, h) ==
    /\ Len(g.nodes) = Len(h.nodes)
    /\ NodeIdentities(g) = NodeIdentities(h)
    /\ SameMultiset(EdgeViews(g), EdgeViews(h))

\* C3: build_attack_graph does not depend on the order of its input paths:
\* every permutation of the list gives the same node identities and the
\* same multiset of edges (from identity, to identity, kind, vulnerability).
C3_BuildOrderIndependent ==
    pc = "built" =>
        \A q \in Permutations(DOMAIN attack_paths) :
            Isomorphic(attack_graph,
                       build_attack_graph([i \in DOMAIN attack_paths |-> attack_paths[q[i]]]))

\* Two paths with different steps that share a node besides the start.
C3_Witness ==
    /\ pc = "built"
    /\ Len(attack_paths) = 2
    /\ attack_paths[1].steps # attack_paths[2].steps
    /\ Len(attack_graph.nodes) < 1 + Len(attack_paths[1].steps) + Len(attack_paths[2].steps)


(***************************************************************************)
(* SpecValidate: a NetworkTopology is constructed from arbitrary attack    *)
(* paths and subnet connections; its validator accepts or raises.          *)
(***************************************************************************)
MaxSteps == 2

ValidateHostIds == { 0, 1 }

ValidateUserIds == { 10, 11 }

ValidateSteps ==
    { LateralMovementStep(fh, th, fu, tu, NoVulnerability) :
        fh \in ValidateHostIds, th \in ValidateHostIds,
        fu \in ValidateUserIds, tu \in ValidateUserIds }
    \cup
    { PrivilegeEscalationStep(h, fu, tu, NoVulnerability) :
        h \in ValidateHostIds, fu \in ValidateUserIds, tu \in ValidateUserIds }

\* The field validators of the two step classes.
StepConstructible(step) ==
    IF step.kind = "lm" THEN step.from_host_id # step.to_host_id
    ELSE step.from_user_id # step.to_user_id

ValidatePaths ==
    { AttackPath(1, sh, su, th, tu, steps) :
        sh \in ValidateHostIds, su \in ValidateUserIds,
        th \in ValidateHostIds, tu \in ValidateUserIds,
        steps \in SeqsUpTo({ st \in ValidateSteps : StepConstructible(st) }, MaxSteps)
                  \ { <<>> } }

\* A continuous path placed in front of the path under test.
ValidateLeadPath ==
    AttackPath(0, 0, 10, 1, 11,
               << LateralMovementStep(0, 1, 10, 10, NoVulnerability),
                  PrivilegeEscalationStep(1, 10, 11, NoVulnerability) >>)

ValidatePathLists ==
    { <<>> } \cup { <<p>> : p \in ValidatePaths }
             \cup { <<ValidateLeadPath, p>> : p \in ValidatePaths }

ValidateConnectionLists ==
    { <<>>,
      << SubnetConnection("subnet_0", "subnet_1", TRUE) >>,
      << SubnetConnection("ghost", "subnet_1", TRUE) >>,
      << SubnetConnection("subnet_0", "subnet_1", TRUE),
         SubnetConnection("subnet_1", "ghost", FALSE) >> }

ValidateTopologies ==
    { NetworkTopology(
          << Subnet("subnet_0", TRUE, << Host(1, << User(11, "user_0") >>) >>),
             Subnet("subnet_1", FALSE, <<>>) >>,
          conns, <<>>, attacker) :
        conns \in ValidateConnectionLists,
        attacker \in { <<>>, << create_default_external_attacker >> } }

InitValidate ==
    /\ topology \in ValidateTopologies
    /\ attack_paths \in ValidatePathLists
    /\ previous_paths = <<>>
    /\ attack_graph = EmptyGraph
    /\ rng = NoRng
    /\ generator = NoGenerator
    /\ NoInvocation
    /\ NoOrchestration
    /\ pc = "constructing"
    /\ raised = "none"

\* NetworkTopology(...): the model validator runs after the fields are set.
ConstructNetworkTopology ==
    /\ pc = "constructing"
    /\ raised' = validate_topology(topology, attack_paths)
    /\ pc' = IF raised' = "none" THEN "constructed" ELSE "error"
    /\ UNCHANGED <<generator, topology, attack_paths, previous_paths, attack_graph, rng>>
    /\ UNCHANGED <<invocation, orchestration>>

NextValidate == ConstructNetworkTopology

SpecValidate == InitValidate /\ [][NextValidate]_vars

\* Every host id a path mentions: its start, its target and the hosts of
\* its steps.
ReferencedHostIds(path) ==
    { path.start_host_id, path.target_host_id }
    \cup { get_source_host_id(path.steps[i]) : i \in DOMAIN path.steps }
    \cup { get_target_host_id(path.steps[i]) : i \in DOMAIN path.steps }

\* Host and user are handed over at every joint of the path.
FullyContinuous(path) ==
    /\ path.steps # <<>>
    /\ get_source_host_id(path.steps[1]) = path.start_host_id
    /\ get_source_user_id(path.steps[1]) = path.start_user_id
    /\ get_target_host_id(path.steps[Len(path.steps)]) = path.target_host_id
    /\ get_target_user_id(path.steps[Len(path.steps)]) = path.target_user_id
    /\ \A i \in 1..(Len(path.steps) - 1) :
          /\ get_target_host_id(path.steps[i]) = get_source_host_id(path.steps[i + 1])
          /\ get_target_user_id(path.steps[i]) = get_source_user_id(path.steps[i + 1])

\* C6: validate_path_continuity returns true only for a continuous path:
\* first source = start identity, last target = target identity, and at
\* every joint the target host and user of step i are the source host and
\* user of step i+1.  A constructed topology has passed the check on every
\* path.
C6_ValidatedPathsAreContinuous ==
    pc = "constructed" =>
        \A i \in DOMAIN attack_paths : FullyContinuous(attack_paths[i])

KnownHostIds(topo) == { h.id : h \in Range(get_all_hosts(topo, TRUE)) }

SubnetNames(topo) == { topo.subnets[i].name : i \in DOMAIN topo.subnets }

TopologyViolation ==
    \/ \E i \in DOMAIN attack_paths :
          \/ ~(ReferencedHostIds(attack_paths[i]) \subseteq KnownHostIds(topology))
          \/ ~validate_path_continuity(attack_paths[i])
    \/ \E i \in DOMAIN topology.subnet_connections :
          \/ topology.subnet_connections[i].from_subnet \notin SubnetNames(topology)
          \/ topology.subnet_connections[i].to_subnet \notin SubnetNames(topology)

\* C7: constructing a NetworkTopology raises, and yields no topology, when
\* an attack path references a host id that is neither a topology host nor
\* the attacker host, when a path fails validate_path_continuity, or when a
\* SubnetConnection names a subnet that does not exist.
C7_ViolationsRaise ==
    (pc # "constructing" /\ TopologyViolation) => (pc = "error" /\ raised # "none")

\* The only violation is a step whose source host is unknown, or a
\* connection whose to_subnet does not exist behind valid paths.
C7_Witness ==
    /\ pc = "error"
    /\ \/ /\ raised = "SubnetConnectivity"
          /\ attack_paths # <<>>
          /\ \E i \in DOMAIN topology.subnet_connections :
                topology.subnet_connections[i].to_subnet \notin SubnetNames(topology)
       \/ /\ raised = "DiscontinuousSteps"
          /\ \E i \in DOMAIN attack_paths :
                ~(ReferencedHostIds(attack_paths[i]) \subseteq KnownHostIds(topology))


(***************************************************************************)
(* SpecPaths: generate_paths_for_topology runs on a given topology with    *)
(* the random module seeded, and runs again after the same seed is set.    *)
(***************************************************************************)
MaxGoals == 2

\* Host h with users [user_0, root] or [root].
PathsHost(h, with_user) ==
    Host(h, IF with_user THEN << User(10 * h + 1, "user_0") >> ELSE <<>>)

\* subnet_0 in its layouts: not external, external and empty, external with
\* one host, external with two hosts.
PathsFirstSubnets ==
    { Subnet("subnet_0", FALSE, << PathsHost(1, TRUE) >>),
      Subnet("subnet_0", TRUE, <<>>) }
    \cup { Subnet("subnet_0", TRUE, << PathsHost(1, u) >>) : u \in BOOLEAN }
    \cup { Subnet("subnet_0", TRUE, << PathsHost(1, u), PathsHost(4, TRUE) >>) :
             u \in BOOLEAN }

PathsSecondSubnets ==
    { Subnet("subnet_1", FALSE, << PathsHost(2, u) >>) : u \in BOOLEAN }

PathsThirdSubnet == Subnet("subnet_2", FALSE, << PathsHost(3, FALSE) >>)

\* [subnets after the second, connections]
PathsShapes ==
    { [more |-> <<>>, conns |-> <<>>],
      [more |-> <<>>, conns |-> << SubnetConnection("subnet_0", "subnet_1", TRUE) >>],
      [more |-> <<>>, conns |-> << SubnetConnection("subnet_1", "subnet_0", FALSE) >>],
      [more |-> << PathsThirdSubnet >>,
       conns |-> << SubnetConnection("subnet_2", "subnet_0", TRUE),
                    SubnetConnection("subnet_2", "subnet_1", TRUE) >>] }

\* Goals on host 2 (root or its user), on host 1 in the first subnet, and on
\* host 3, which only the three-subnet shape has.
PathsGoals(second) ==
    { JSONDataExfiltrationGoal(2, 20, "root"),
      Goal(3, 30),
      JSONDataExfiltrationGoal(1, 10, "root") }
    \cup { JSONDataExfiltrationGoal(2, u.id, u.username) :
             u \in Range(get_non_root_user(second.hosts[1])) }

PathsTopologies ==
    UNION { UNION { UNION {
        { NetworkTopology(<<first, second>> \o shape.more, shape.conns, goals, attacker) :
            goals \in SeqsUpTo(PathsGoals(second), MaxGoals),
            attacker \in IF shape.conns = <<>>
                         THEN { <<>>, << create_default_external_attacker >> }
                         ELSE { << create_default_external_attacker >> } } :
        shape \in PathsShapes } :
        second \in PathsSecondSubnets } :
        first \in PathsFirstSubnets }

InitPaths ==
    /\ topology \in PathsTopologies
    /\ attack_paths = <<>>
    /\ previous_paths = <<>>
    /\ attack_graph = EmptyGraph
    /\ rng = NoRng
    /\ generator = NoGenerator
    /\ NoInvocation
    /\ NoOrchestration
    /\ pc = "seeded"
    /\ raised = "none"

\* AttackPathGenerator().generate_paths_for_topology(topology)
GeneratePaths ==
    /\ pc \in { "seeded", "reseeded" }
    /\ \E o \in generate_paths_for_topology(topology, KnownDraws, rng.uuids) :
          /\ attack_paths' = o.paths
          /\ raised' = o.raised
          /\ rng' = Consume(o.draws, Len(o.paths))
          /\ pc' = IF o.raised # "none" THEN "error"
                   ELSE IF pc = "seeded" THEN "generated" ELSE "regenerated"
    /\ UNCHANGED <<generator, topology, previous_paths, attack_graph>>
    /\ UNCHANGED <<invocation, orchestration>>

\* random.seed(seed) with the seed used before; the caller keeps the paths
\* of the first run.
ReseedRandom ==
    /\ pc = "generated"
    /\ rng' = [rng EXCEPT !.pos = 0]
    /\ previous_paths' = attack_paths
    /\ pc' = "reseeded"
    /\ UNCHANGED <<generator, topology, attack_paths, attack_graph, raised>>
    /\ UNCHANGED <<invocation, orchestration>>

NextPaths == GeneratePaths \/ ReseedRandom

SpecPaths == InitPaths /\ [][NextPaths]_vars

\* generate_paths_for_topology has returned a list.
PathsReturned == pc \in { "generated", "reseeded", "regenerated" }

GoalHostsMatch ==
    /\ Len(attack_paths) = Len(topology.goals)
    /\ \A i \in DOMAIN attack_paths :
          attack_paths[i].target_host_id = topology.goals[i].target_host_id

\* C8: generate_paths_for_topology returns exactly one AttackPath per goal,
\* in the goals' order (same length, i-th path targets the i-th goal's
\* host), for every topology that has an attacker host.
C8_OnePathPerGoal ==
    (PathsReturned /\ topology.attacker_host # <<>>) => GoalHostsMatch

HasFoothold(topo) ==
    get_external_subnet(topo) # <<>> /\ get_external_subnet(topo)[1].hosts # <<>>

GoalHostsKnown(topo) ==
    \A i \in DOMAIN topo.goals :
        topo.goals[i].target_host_id \in { h.id : h \in Range(get_all_hosts(topo, FALSE)) }

\* C8 as amended: with an attacker host, an external subnet that has a host
\* and goals whose target hosts are topology hosts, the call returns one
\* path per goal in the goals' order; without an external subnet, or with
\* an empty one, it returns the empty list whatever the goals are.
C8_OnePathPerGoalWithFoothold ==
    pc # "seeded" =>
        /\ (HasFoothold(topology) /\ topology.attacker_host # <<>>
              /\ GoalHostsKnown(topology))
               => (PathsReturned /\ GoalHostsMatch)
        /\ ~HasFoothold(topology) => (PathsReturned /\ attack_paths = <<>>)

\* Two goals on different hosts, both answered.
C8_Witness ==
    /\ pc = "generated"
    /\ Len(topology.goals) = 2
    /\ topology.goals[1].target_host_id # topology.goals[2].target_host_id
    /\ Len(attack_paths) = 2

\* C9: two runs of the generator on the same topology with the same seed
\* return identical AttackPath lists (ids, identities and steps).
C9_SameSeedSamePaths ==
    pc = "regenerated" => attack_paths = previous_paths

\* The scenario: the external subnet holds only host 1, the second subnet,
\* connected to it, only host 2; one goal on host 2's root user; an
\* attacker host.
Scenario ==
    /\ Len(topology.subnets) = 2
    /\ topology.subnets[1].external
    /\ Len(topology.subnets[1].hosts) = 1
    /\ \E i \in DOMAIN topology.subnet_connections :
          { topology.subnet_connections[i].from_subnet,
            topology.subnet_connections[i].to_subnet } = { "subnet_0", "subnet_1" }
    /\ Len(topology.goals) = 1
    /\ topology.goals[1].target_host_id = topology.subnets[2].hosts[1].id
    /\ topology.goals[1].target_user_id = get_root_user(topology.subnets[2].hosts[1]).id
    /\ topology.attacker_host # <<>>

TwoMoves(steps) ==
    /\ Len(steps) >= 2
    /\ steps[1].kind = "lm"
    /\ steps[1].from_host_id = topology.attacker_host[1].id
    /\ steps[1].to_host_id = topology.subnets[1].hosts[1].id
    /\ steps[2].kind = "lm"
    /\ steps[2].from_host_id = topology.subnets[1].hosts[1].id
    /\ steps[2].to_host_id = topology.subnets[2].hosts[1].id

\* C10: in the scenario the generator emits exactly one path, with the steps
\* [LateralMovement(A to H1), LateralMovement(H1 to H2)] and no privilege
\* escalation at the end, for every random choice and every user set.
C10_ScenarioTwoMoves ==
    (PathsReturned /\ Scenario) =>
        /\ Len(attack_paths) = 1
        /\ TwoMoves(attack_paths[1].steps)
        /\ Len(attack_paths[1].steps) = 2

\* C10 as amended: the path starts with the two lateral movements; it ends
\* there when host 2 has no user besides root, and when host 2 has one the
\* second movement lands on that user and a privilege escalation to root on
\* host 2 follows as third and last step.
C10_ScenarioTwoMovesThenEscalation ==
    (PathsReturned /\ Scenario) =>
        LET h2 == topology.subnets[2].hosts[1]
            steps == attack_paths[1].steps
        IN  /\ Len(attack_paths) = 1
            /\ TwoMoves(steps)
            /\ IF get_non_root_user(h2) = <<>>
               THEN Len(steps) = 2
               ELSE /\ Len(steps) = 3
                    /\ steps[2].to_user_id = get_non_root_user(h2)[1].id
                    /\ steps[3] = PrivilegeEscalationStep(h2.id,
                                      get_non_root_user(h2)[1].id,
                                      get_root_user(h2).id, NoVulnerability)

\* The scenario with a root-only host 2 and a host 1 whose user was drawn.
C10_Witness ==
    /\ pc = "generated"
    /\ Scenario
    /\ get_non_root_user(topology.subnets[2].hosts[1]) = <<>>
    /\ get_non_root_user(topology.subnets[1].hosts[1]) # <<>>
    /\ Len(attack_paths) = 1
    /\ Len(attack_paths[1].steps) = 2
    /\ attack_paths[1].steps[1].to_user_id
           = get_non_root_user(topology.subnets[1].hosts[1])[1].id

(***************************************************************************)
(* network_generator.py: SimpleNetworkGenerator.  A host's id is its       *)
(* creation rank; its user_N has id 10 * id + 1 and its root 10 * id.      *)
(***************************************************************************)
\* The fields __init__ keeps that decide the shape of the network.
SimpleNetworkGenerator(min_subnets, max_subnets, min_hosts_per_subnet, max_hosts_per_subnet) ==
    [min_subnets |-> min_subnets, max_subnets |-> max_subnets,
     min_hosts_per_subnet |-> min_hosts_per_subnet,
     max_hosts_per_subnet |-> max_hosts_per_subnet]

\* f"subnet_{subnet_num}"
SubnetName(subnet_num) ==
    << "subnet_0", "subnet_1", "subnet_2", "subnet_3" >>[subnet_num + 1]

\* f"user_{host_num}"
UserName(host_num) ==
    << "user_0", "user_1", "user_2", "user_3", "user_4" >>[host_num + 1]

generate_random_subnet(subnet_num) == Subnet(SubnetName(subnet_num), FALSE, <<>>)

generate_random_host(host_id, host_num) ==
    Host(host_id, << User(10 * host_id + 1, UserName(host_num)) >>)

\* The number of hosts created for the subnets before the i-th.
RECURSIVE HostsBefore(_, _)
HostsBefore(num_hosts, i) ==
    IF i <= 1 THEN 0 ELSE HostsBefore(num_hosts, i - 1) + num_hosts[i - 1]

\* The subnets after "for subnet in subnets": num_hosts[i] is the value
\* random.randint returned for the i-th subnet.
GenerateSubnets(num_hosts) ==
    [i \in DOMAIN num_hosts |->
        [generate_random_subnet(i - 1) EXCEPT
            !.external = (i = 1),
            !.hosts = [k \in 1..num_hosts[i] |->
                         generate_random_host(HostsBefore(num_hosts, i) + k, k - 1)]]]

\* "while unconnected_subnets": every choice of a connected and an
\* unconnected subnet.
RECURSIVE SpanningConnections(_, _, _)
SpanningConnections(connected_subnets, unconnected_subnets, connections) ==
    IF unconnected_subnets = {} THEN { connections }
    ELSE UNION { SpanningConnections(
                     connected_subnets \cup { c[2] }, unconnected_subnets \ { c[2] },
                     Append(connections, SubnetConnection(c[1], c[2], TRUE))) :
                 c \in connected_subnets \X unconnected_subnets }

\* The pairs (subnet1, subnet2) in the order of the two nested loops.
RECURSIVE SubnetPairs(_, _, _)
SubnetPairs(subnet_names, i, j) ==
    IF i > Len(subnet_names) THEN <<>>
    ELSE IF j > Len(subnet_names) THEN SubnetPairs(subnet_names, i + 1, i + 2)
    ELSE << << subnet_names[i], subnet_names[j] >> >> \o SubnetPairs(subnet_names, i, j + 1)

\* The additional connections: each pair not yet connected is added or not,
\* as random.random() < connection_probability decides.
RECURSIVE ExtraConnections(_, _, _)
ExtraConnections(pairs, existing_pairs, connections) ==
    IF pairs = <<>> THEN { connections }
    ELSE IF Head(pairs) \in existing_pairs
    THEN ExtraConnections(Tail(pairs), existing_pairs, connections)
    ELSE ExtraConnections(Tail(pairs), existing_pairs, connections)
         \cup ExtraConnections(Tail(pairs), existing_pairs,
                  Append(connections,
                         SubnetConnection(Head(pairs)[1], Head(pairs)[2], TRUE)))

\* The set of connection lists _generate_random_connections may return.
generate_random_connections(subnets) ==
    IF Len(subnets) <= 1 THEN { <<>> }
    ELSE LET subnet_names == [i \in DOMAIN subnets |-> subnets[i].name]
         IN  UNION {
               ExtraConnections(
                   SubnetPairs(subnet_names, 1, 2),
                   { << tree[i].from_subnet, tree[i].to_subnet >> : i \in DOMAIN tree }
                   \cup { << tree[i].to_subnet, tree[i].from_subnet >> : i \in DOMAIN tree },
                   tree) :
               tree \in SpanningConnections({ subnet_names[1] },
                                            Range(Tail(subnet_names)), <<>>) }

\* The goal _generate_goals appends for a host and the user drawn on it.
GoalFor(host, target_user) ==
    JSONDataExfiltrationGoal(host.id, target_user.id, target_user.username)

\* "for host in all_hosts" from host i on: a host outside the external
\* subnet gets a goal or not, as random.random() < goal_host_probability
\* decides.
RECURSIVE GoalsLoop(_, _, _, _)
GoalsLoop(topo, all_hosts, i, goals) ==
    IF i > Len(all_hosts) THEN { goals }
    ELSE LET host == all_hosts[i]
             subnet == get_subnet_for_host(topo, host)
         IN  IF subnet = <<>> \/ subnet[1].external
             THEN GoalsLoop(topo, all_hosts, i + 1, goals)
             ELSE GoalsLoop(topo, all_hosts, i + 1, goals)
                  \cup UNION { GoalsLoop(topo, all_hosts, i + 1,
                                  Append(goals, GoalFor(host, host.users[k]))) :
                              k \in DOMAIN host.users }

\* The set of goal lists _generate_goals may return.
generate_goals(topo) ==
    LET all_hosts == get_all_hosts(topo, FALSE)
    IN  UNION { IF goals = <<>> /\ all_hosts # <<>>
                THEN UNION { { << GoalFor(all_hosts[h], all_hosts[h].users[k]) >> :
                                 k \in DOMAIN all_hosts[h].users } :
                             h \in DOMAIN all_hosts }
                ELSE { goals } :
                goals \in GoalsLoop(topo, all_hosts, 1, <<>>) }

\* The host with the id gets one more vulnerability.
AppendVulnerability(topo, host_id, v) ==
    LET host(h) == IF h.id = host_id
                   THEN [h EXCEPT !.vulnerabilities = Append(@, v)] ELSE h
        subnet(sn) == [sn EXCEPT !.hosts = [j \in DOMAIN sn.hosts |-> host(sn.hosts[j])]]
    IN  [topo EXCEPT !.subnets = [i \in DOMAIN topo.subnets |-> subnet(topo.subnets[i])]]

\* "for edge in self.attack_graph.get_all_edges()" from edge k on.
RECURSIVE ApplyLoop(_, _, _)
ApplyLoop(topo, graph, k) ==
    IF k > Len(graph.edges) THEN [topo |-> topo, raised |-> "none"]
    ELSE LET edge == graph.edges[k]
         IN  IF edge.vulnerability.type = "none"
             THEN [topo |-> topo, raised |-> "VulnerabilityNotSet"]
             ELSE IF edge.to_node_id \notin NodeIds(graph)
             THEN [topo |-> topo, raised |-> "NodeNotFound"]
             ELSE LET ag_node == NodeById(graph, edge.to_node_id)
                  IN  IF get_host_by_id(topo, ag_node.host_id, FALSE) = <<>>
                      THEN [topo |-> topo, raised |-> "HostNotFound"]
                      ELSE ApplyLoop(AppendVulnerability(topo, ag_node.host_id,
                                                         edge.vulnerability),
                                     graph, k + 1)

apply_vulnerabilities(topo, graph) == ApplyLoop(topo, graph, 1)

(***************************************************************************)
(* Vulnerability assignment.  A selection policy gives the vulnerability   *)
(* of a step by the step's kind and position; NoVulnerability leaves the   *)
(* step without one.                                                       *)
(***************************************************************************)
SelectionPolicies ==
    { [first |-> f, lateral_movement |-> l, privilege_escalation |-> p] :
        f \in { ApacheStrutsVulnerability, LateralMovementVulnerability },
        l \in { ApacheStrutsVulnerability, NoVulnerability },
        p \in { SudoBaronVulnerability, NoVulnerability } }

assign_for_topology(paths, policy) ==
    LET assigned(step, j) ==
            [step EXCEPT !.vulnerability =
                IF step.kind = "pe" THEN policy.privilege_escalation
                ELSE IF j = 1 THEN policy.first
                ELSE policy.lateral_movement]
    IN  [i \in DOMAIN paths |->
            [paths[i] EXCEPT !.steps =
                [j \in DOMAIN paths[i].steps |-> assigned(paths[i].steps[j], j)]]]

(***************************************************************************)
(* SpecGen: SimpleNetworkGenerator.generate_network, from the constructed  *)
(* generator to the returned topology or the exception raised.  The        *)
(* generator is constructed without a seed: no draw is replayed and rng    *)
(* is not used.                                                            *)
(***************************************************************************)
GeneratorSettings ==
    { SimpleNetworkGenerator(1, 2, 0, 2),
      SimpleNetworkGenerator(3, 3, 1, 1),
      SimpleNetworkGenerator(0, 1, 1, 1) }

InitGen ==
    /\ generator \in GeneratorSettings
    /\ NoInvocation
    /\ NoOrchestration
    /\ topology = NoTopology
    /\ attack_paths = <<>>
    /\ previous_paths = <<>>
    /\ attack_graph = EmptyGraph
    /\ rng = NoRng
    /\ pc = "ready"
    /\ raised = "none"

\* Lines 68-100: subnets, hosts, connections, the NetworkTopology.
GenerateTopology ==
    /\ pc = "ready"
    /\ \E num_subnets \in generator.min_subnets..generator.max_subnets :
          IF num_subnets = 0
          THEN /\ raised' = "IndexError"
               /\ pc' = "error"
               /\ UNCHANGED topology
          ELSE \E num_hosts \in [1..num_subnets ->
                                    generator.min_hosts_per_subnet..
                                    generator.max_hosts_per_subnet] :
               \E connections \in generate_random_connections(GenerateSubnets(num_hosts)) :
                  /\ topology' = NetworkTopology(GenerateSubnets(num_hosts),
                                                 connections, <<>>, <<>>)
                  /\ raised' = validate_topology(topology', <<>>)
                  /\ pc' = IF raised' = "none" THEN "topology" ELSE "error"
    /\ UNCHANGED <<generator, attack_paths, previous_paths, attack_graph, rng>>
    /\ UNCHANGED <<invocation, orchestration>>

\* Lines 102-107: the goals and the attacker host.
GenerateGoals ==
    /\ pc = "topology"
    /\ \E goals \in generate_goals(topology) :
          topology' = [topology EXCEPT !.goals = goals,
                                       !.attacker_host = << create_default_external_attacker >>]
    /\ pc' = "goals"
    /\ UNCHANGED <<generator, attack_paths, previous_paths, attack_graph, rng, raised>>
    /\ UNCHANGED <<invocation, orchestration>>

\* Lines 110-111.
GenerateAttackPaths ==
    /\ pc = "goals"
    /\ \E o \in generate_paths_for_topology(topology, <<>>, 0) :
          /\ attack_paths' = o.paths
          /\ raised' = o.raised
          /\ pc' = IF o.raised = "none" THEN "paths" ELSE "error"
    /\ UNCHANGED <<generator, topology, previous_paths, attack_graph, rng>>
    /\ UNCHANGED <<invocation, orchestration>>

\* Line 114.
AssignVulnerabilities ==
    /\ pc = "paths"
    /\ \E policy \in SelectionPolicies :
          attack_paths' = assign_for_topology(attack_paths, policy)
    /\ pc' = "assigned"
    /\ UNCHANGED <<generator, topology, previous_paths, attack_graph, rng, raised>>
    /\ UNCHANGED <<invocation, orchestration>>

\* Lines 117-118.
BuildAndPrune ==
    /\ pc = "assigned"
    /\ LET r == prune_edges_by_host(build_attack_graph(attack_paths))
       IN  /\ attack_graph' = r.graph
           /\ raised' = r.raised
           /\ pc' = IF r.raised = "none" THEN "pruned" ELSE "error"
    /\ UNCHANGED <<generator, topology, attack_paths, previous_paths, rng>>
    /\ UNCHANGED <<invocation, orchestration>>

\* Line 119.
ValidateAttackGraph ==
    /\ pc = "pruned"
    /\ raised' = validate_attack_graph(attack_graph, topology.goals)
    /\ pc' = IF raised' = "none" THEN "validated" ELSE "error"
    /\ UNCHANGED <<generator, topology, attack_paths, previous_paths, attack_graph, rng>>
    /\ UNCHANGED <<invocation, orchestration>>

\* Lines 121-122.
ApplyVulnerabilities ==
    /\ pc = "validated"
    /\ LET r == apply_vulnerabilities(topology, attack_graph)
       IN  /\ topology' = r.topo
           /\ raised' = r.raised
           /\ pc' = IF r.raised = "none" THEN "applied" ELSE "error"
    /\ UNCHANGED <<generator, attack_paths, previous_paths, attack_graph, rng>>
    /\ UNCHANGED <<invocation, orchestration>>

\* Lines 127-129: the model validator runs on the finished topology, which
\* is then returned.
ModelValidate ==
    /\ pc = "applied"
    /\ raised' = validate_topology(topology, attack_paths)
    /\ pc' = IF raised' = "none" THEN "returned" ELSE "error"
    /\ UNCHANGED <<generator, topology, attack_paths, previous_paths, attack_graph, rng>>
    /\ UNCHANGED <<invocation, orchestration>>

NextGen ==
    \/ GenerateTopology
    \/ GenerateGoals
    \/ GenerateAttackPaths
    \/ AssignVulnerabilities
    \/ BuildAndPrune
    \/ ValidateAttackGraph
    \/ ApplyVulnerabilities
    \/ ModelValidate

SpecGen == InitGen /\ [][NextGen]_vars

(***************************************************************************)
(* Claims about the network generator (SpecGen).                           *)
(***************************************************************************)
\* The graph derived from the paths exists: build and prune have run.
GraphDerived == pc \in { "pruned", "validated", "applied", "returned" }

\* The (host_id, user_id) identities of the graph's nodes.
GraphNodeIdentities ==
    { << attack_graph.nodes[i].host_id, attack_graph.nodes[i].user_id >> :
        i \in DOMAIN attack_graph.nodes }

\* C4: in every topology generate_network returns, each goal's
\* (target_host_id, target_user_id) is the identity of a node of the graph
\* built from the paths and pruned.
C4_GoalsAreGraphNodes ==
    pc = "returned" =>
        \A i \in DOMAIN topology.goals :
            << topology.goals[i].target_host_id, topology.goals[i].target_user_id >>
                \in GraphNodeIdentities

\* A returned topology with two goals, one of them on a user other than root.
C4_Witness ==
    /\ pc = "returned"
    /\ Len(topology.goals) = 2
    /\ \E i \in DOMAIN topology.goals : topology.goals[i].host_user # "root"
    /\ Len(attack_graph.nodes) >= 3

\* The nodes an undirected walk along the edges reaches from the set seen.
RECURSIVE UndirectedReach(_, _)
UndirectedReach(graph, seen) ==
    LET more == { e.to_node_id : e \in { x \in Range(graph.edges) : x.from_node_id \in seen } }
                \cup { e.from_node_id : e \in { x \in Range(graph.edges) : x.to_node_id \in seen } }
    IN  IF more \subseteq seen THEN seen ELSE UndirectedReach(graph, seen \cup more)

\* C5: the graph of every generated topology, after build_attack_graph and
\* prune_edges_by_host, is one connected component when its edges are read
\* as undirected (every node reaches every other node), and
\* validate_all_nodes_connected reports no unreachable node for it.
C5_GraphIsConnected ==
    GraphDerived =>
        /\ \A n \in NodeIds(attack_graph) :
               UndirectedReach(attack_graph, { n }) = NodeIds(attack_graph)
        /\ validate_all_nodes_connected(attack_graph) = {}

\* A derived graph of two paths that share only the attacker's node.
C5_Witness ==
    /\ GraphDerived
    /\ Len(attack_paths) = 2
    /\ Len(attack_graph.nodes) >= 4
    /\ \A i \in DOMAIN attack_graph.edges :
          attack_graph.edges[i].to_node_id # attack_graph.nodes[1].id

(***************************************************************************)
(* SpecRoute: find_subnet_path(from_subnet, to_subnet) on a topology of    *)
(* three subnets and up to MaxConnections connections between them.        *)
(***************************************************************************)
MaxConnections == 3

RouteSubnetNames == { "subnet_0", "subnet_1", "subnet_2" }

RouteSubnets ==
    << Subnet("subnet_0", TRUE, <<>>), Subnet("subnet_1", FALSE, <<>>),
       Subnet("subnet_2", FALSE, <<>>) >>

RouteConnections ==
    { SubnetConnection(f, t, b) :
        f \in RouteSubnetNames, t \in RouteSubnetNames, b \in BOOLEAN } \
    { SubnetConnection(n, n, b) : n \in RouteSubnetNames, b \in BOOLEAN }

RouteTopologies ==
    { NetworkTopology(RouteSubnets, conns, <<>>, <<>>) :
        conns \in SeqsUpTo(RouteConnections, MaxConnections) }

InitRoute ==
    /\ topology \in RouteTopologies
    /\ call \in { [from_subnet |-> f, to_subnet |-> t] :
                    f \in RouteSubnetNames, t \in RouteSubnetNames }
    /\ result = NoFrame
    /\ generator = NoGenerator
    /\ attack_paths = <<>>
    /\ previous_paths = <<>>
    /\ attack_graph = EmptyGraph
    /\ rng = NoRng
    /\ NoOrchestration
    /\ pc = "calling"
    /\ raised = "none"

\* topology.find_subnet_path(from_subnet, to_subnet); result is <<>> for None.
FindSubnetPath ==
    /\ pc = "calling"
    /\ result' = find_subnet_path(topology, call.from_subnet, call.to_subnet)
    /\ pc' = "returned"
    /\ UNCHANGED <<generation, orchestration, call, raised>>

NextRoute == FindSubnetPath

SpecRoute == InitRoute /\ [][NextRoute]_vars

\* A hop from a to b follows a connection: forward, or backward when the
\* connection is bidirectional.
FollowsConnection(a, b) ==
    \E i \in DOMAIN topology.subnet_connections :
        LET conn == topology.subnet_connections[i]
        IN  \/ conn.from_subnet = a /\ conn.to_subnet = b
            \/ conn.bidirectional /\ conn.from_subnet = b /\ conn.to_subnet = a

\* The subnets at most n hops away from a.
RECURSIVE WithinHops(_, _)
WithinHops(a, n) ==
    IF n = 0 THEN { a }
    ELSE LET near == WithinHops(a, n - 1)
         IN  near \cup { b \in RouteSubnetNames : \E x \in near : FollowsConnection(x, b) }

\* The least number of hops from a to b; Cardinality(RouteSubnetNames) when
\* b cannot be reached.
MinHops(a, b) ==
    LET far == Cardinality(RouteSubnetNames)
    IN  IF b \notin WithinHops(a, far) THEN far
        ELSE CHOOSE n \in 0..far :
                 /\ b \in WithinHops(a, n)
                 /\ \A m \in 0..(n - 1) : b \notin WithinHops(a, m)

CommunicateSubnetNames == { "subnet_0", "subnet_1" }

CommunicateConnections ==
    { FilteredSubnetConnection(f, t, b, protocol, ports) :
        f \in CommunicateSubnetNames, t \in CommunicateSubnetNames, b \in BOOLEAN,
        protocol \in { <<>>, << "tcp" >> }, ports \in { <<>>, << { 80 } >> } } \
    { FilteredSubnetConnection(n, n, b, protocol, ports) :
        n \in CommunicateSubnetNames, b \in BOOLEAN,
        protocol \in { <<>>, << "tcp" >> }, ports \in { <<>>, << { 80 } >> } }

CommunicateTopologies ==
    { NetworkTopology(<< Subnet("subnet_0", TRUE, <<>>), Subnet("subnet_1", FALSE, <<>>) >>,
                      conns, <<>>, <<>>) :
        conns \in SeqsUpTo(CommunicateConnections, MaxConnections) }

InitCommunicate ==
    /\ topology \in CommunicateTopologies
    /\ call \in { [from_subnet |-> f, to_subnet |-> t, protocol |-> protocol, port |-> port] :
                    f \in CommunicateSubnetNames, t \in CommunicateSubnetNames,
                    protocol \in { <<>>, << "tcp" >>, << "udp" >> },
                    port \in { <<>>, << 80 >>, << 22 >> } }
    /\ result = NoFrame
    /\ generator = NoGenerator
    /\ attack_paths = <<>>
    /\ previous_paths = <<>>
    /\ attack_graph = EmptyGraph
    /\ rng = NoRng
    /\ NoOrchestration
    /\ pc = "calling"
    /\ raised = "none"

\* topology.can_subnets_communicate(from_subnet, to_subnet, protocol, port)
CanSubnetsCommunicate ==
    /\ pc = "calling"
    /\ result' = can_subnets_communicate(topology, call.from_subnet, call.to_subnet,
                                         call.protocol, call.port)
    /\ pc' = "returned"
    /\ UNCHANGED <<generation, orchestration, call, raised>>

NextCommunicate == CanSubnetsCommunicate

SpecCommunicate == InitCommunicate /\ [][NextCommunicate]_vars

\* Some connection matches the pair of the call (backward only when it is
\* bidirectional) and, when protocol and port are both given, allows them.
SomeConnectionAllows ==
    \E i \in DOMAIN topology.subnet_connections :
        LET conn == topology.subnet_connections[i]
        IN  /\ \/ conn.from_subnet = call.from_subnet /\ conn.to_subnet = call.to_subnet
               \/ /\ conn.bidirectional
                  /\ conn.from_subnet = call.to_subnet
                  /\ conn.to_subnet = call.from_subnet
            /\ (call.protocol # <<>> /\ call.port # <<>>) =>
                   /\ conn.protocol = <<>> \/ conn.protocol = call.protocol
                   /\ conn.ports = <<>> \/ call.port[1] \in conn.ports[1]

\* C12: can_subnets_communicate returns true exactly when the two subnets
\* are the same or some connection of the list matches the pair and allows
\* the given protocol and port, wherever that connection stands in the
\* list.
C12_CommunicateIffSomeConnectionAllows ==
    pc = "returned" =>
        (result <=> (call.from_subnet = call.to_subnet \/ SomeConnectionAllows))

(***************************************************************************)
(* AnsibleRunner.py.  ansible_runner is the runner with the frame of its   *)
(* run_playbook call: the playbook, the loop counter, the status of the    *)
(* last ansible_runner.run and the statuses of all runs of the call in     *)
(* the order they were made.  at is the position of the call: "idle",      *)
(* "looping", "finished" (the for loop is left), "returned" or "raised".   *)
(***************************************************************************)
MAX_RETRIES == 3

\* A playbook is its name, the address of the host it is run against (the
\* host's id stands for the address) and its parameters.
AnsiblePlaybook(name, host, params) == [name |-> name, host |-> host, params |-> params]

NoPlaybook == AnsiblePlaybook("none", 0, <<>>)

\* The statuses ansible_runner reports for a run that has ended.
AnsibleStatuses == { "successful", "failed", "timeout", "canceled" }

AnsibleRunner ==
    [MAX_RETRIES |-> MAX_RETRIES, playbook |-> NoPlaybook, attempt |-> 0,
     status |-> "none", runs |-> <<>>, at |-> "idle"]

\* run_playbook(playbook) entered: ansible_result = None, the loop begins.
run_playbook(runner, playbook) ==
    [runner EXCEPT !.playbook = playbook, !.attempt = 0, !.status = "none",
                   !.runs = <<>>,
                   !.at = IF runner.MAX_RETRIES > 0 THEN "looping" ELSE "finished"]

\* One iteration of the loop that keeps looping after a successful run.
run_playbook_attempt_NoBreak(runner, status) ==
    [runner EXCEPT !.status = status,
                   !.runs = Append(@, status),
                   !.attempt = @ + 1,
                   !.at = IF runner.attempt + 1 < runner.MAX_RETRIES
                          THEN "looping" ELSE "finished"]

\* One iteration of "for attempt in range(self.MAX_RETRIES)": the run ends
\* with status; a successful one breaks the loop, any other is followed by
\* time.sleep(5) and the next iteration.
run_playbook_attempt(runner, status) ==
    [runner EXCEPT !.status = status,
                   !.runs = Append(@, status),
                   !.attempt = IF status = "successful" THEN @ ELSE @ + 1,
                   !.at = IF status = "successful" THEN "finished"
                          ELSE IF runner.attempt + 1 < runner.MAX_RETRIES
                          THEN "looping" ELSE "finished"]

\* After the loop: raise unless the last result is successful.
run_playbook_end(runner) ==
    [runner EXCEPT !.at = IF runner.status = "none" \/ runner.status # "successful"
                          THEN "raised" ELSE "returned"]

\* ansible_runner.run(...) of the current iteration ends.
PlaybookAttempt ==
    /\ ansible_runner # NoFrame
    /\ ansible_runner.at = "looping"
    /\ \E status \in AnsibleStatuses :
          ansible_runner' = run_playbook_attempt(ansible_runner, status)
    /\ UNCHANGED <<generation, invocation, compute, deployer, host_deployer,
                   host_builder, clock, pc, raised>>

\* Lines 57-60 of run_playbook.
PlaybookEnd ==
    /\ ansible_runner # NoFrame
    /\ ansible_runner.at = "finished"
    /\ ansible_runner' = run_playbook_end(ansible_runner)
    /\ UNCHANGED <<generation, invocation, compute, deployer, host_deployer,
                   host_builder, clock, pc, raised>>

(***************************************************************************)
(* SpecPlaybook: one call of run_playbook.                                 *)
(***************************************************************************)
PlaybookNames ==
    { "common/createUser/createUser.yml",
      "deployment_instance/setup_server_ssh_keys/create_ssh_key.yml",
      "deployment_instance/setup_server_ssh_keys/setup_ssh_keys.yml",
      "goals/data/addData.yml" }

InitPlaybook ==
    /\ call \in { [playbook |-> AnsiblePlaybook(name, 1, <<>>)] : name \in PlaybookNames }
    /\ result = NoFrame
    /\ ansible_runner = run_playbook(AnsibleRunner, call.playbook)
    /\ compute = NoFrame
    /\ deployer = NoFrame
    /\ host_deployer = NoFrame
    /\ host_builder = NoFrame
    /\ clock = 0
    /\ generator = NoGenerator
    /\ topology = NoTopology
    /\ attack_paths = <<>>
    /\ previous_paths = <<>>
    /\ attack_graph = EmptyGraph
    /\ rng = NoRng
    /\ pc = "run_playbook"
    /\ raised = "none"

NextPlaybook == PlaybookAttempt \/ PlaybookEnd

SpecPlaybook == InitPlaybook /\ [][NextPlaybook]_vars

\* C19: run_playbook runs the playbook at most 3 times and never again
\* after a run that ended successful; it returns that successful result,
\* and it raises exactly when 3 runs were made and none was successful.
C19_RunPlaybookRetries ==
    /\ Len(ansible_runner.runs) <= 3
    /\ \A i \in 1..(Len(ansible_runner.runs) - 1) : ansible_runner.runs[i] # "successful"
    /\ ansible_runner.at = "returned" =>
          /\ ansible_runner.runs # <<>>
          /\ ansible_runner.runs[Len(ansible_runner.runs)] = "successful"
          /\ ansible_runner.status = "successful"
    /\ ansible_runner.at = "raised" =>
          /\ Len(ansible_runner.runs) = 3
          /\ \A i \in 1..3 : ansible_runner.runs[i] # "successful"
    /\ ansible_runner.at \in { "returned", "raised" } =>
          ((\A i \in DOMAIN ansible_runner.runs : ansible_runner.runs[i] # "successful")
              => ansible_runner.at = "raised")

\* The call returned after two unsuccessful runs and a successful third.
C19_Witness ==
    /\ ansible_runner.at = "returned"
    /\ Len(ansible_runner.runs) = 3
    /\ ansible_runner.runs[1] = "failed"
    /\ ansible_runner.runs[2] = "timeout"

(***************************************************************************)
(* ansible_host_builder.py.  host_builder is the builder with the frames   *)
(* of setup_base_dependencies (base counts its run_playbook calls that     *)
(* have returned) and of configure_topology_hosts:                         *)
(* phase counts the run_playbooks_serial calls entered, playbooks is the   *)
(* list of the current one and next its loop position; started and         *)
(* completed record the run_playbook calls made and returned, each with    *)
(* the phase it belongs to.                                                *)
(***************************************************************************)
\* components.py: a user with ssh_keys, the ids of the users it can log in as.
KeyedUser(id, username, ssh_keys) ==
    [id |-> id, username |-> username, ssh_keys |-> ssh_keys]

\* ssh_keys defaults to the empty list.
ssh_keys(user) == IF "ssh_keys" \in DOMAIN user THEN user.ssh_keys ELSE <<>>

\* NetworkTopology.get_user_by_id: <<>> for None.
get_user_by_id(topo, user_id) ==
    LET users == Flatten([h \in DOMAIN get_all_hosts(topo, FALSE) |->
                             get_all_hosts(topo, FALSE)[h].users])
        found == SelectSeq(users, LAMBDA u : u.id = user_id)
    IN  IF found = <<>> THEN <<>> ELSE <<found[1]>>

\* NetworkTopology.get_host_by_user: <<>> for None.
get_host_by_user(topo, user) ==
    LET found == SelectSeq(get_all_hosts(topo, FALSE),
                           LAMBDA h : \E k \in DOMAIN h.users : h.users[k].id = user.id)
    IN  IF found = <<>> THEN <<>> ELSE <<found[1]>>

\* createUser for every user but root on every host, then create_ssh_key
\* for every user on every host.
generate_user_creation_playbooks(all_hosts) ==
    LET create(host) ==
            LET others == SelectSeq(host.users, LAMBDA u : u.username # "root")
            IN  [k \in DOMAIN others |->
                    AnsiblePlaybook("common/createUser/createUser.yml", host.id,
                                    <<others[k].username>>)]
        key(host) ==
            [k \in DOMAIN host.users |->
                AnsiblePlaybook("deployment_instance/setup_server_ssh_keys/create_ssh_key.yml",
                                host.id, <<host.users[k].username>>)]
    IN  Flatten([h \in DOMAIN all_hosts |-> create(all_hosts[h])]) \o
        Flatten([h \in DOMAIN all_hosts |-> key(all_hosts[h])])

\* One setup_ssh_keys playbook for every key of every user; raises when the
\* user of a key, or that user's host, is not in the topology.
generate_ssh_key_playbooks(topo, all_hosts) ==
    LET keys(host, user) ==
            [k \in DOMAIN ssh_keys(user) |->
                [host |-> host, user |-> user, ssh_user_id |-> ssh_keys(user)[k]]]
        of_host(host) ==
            Flatten([k \in DOMAIN host.users |-> keys(host, host.users[k])])
        all == Flatten([h \in DOMAIN all_hosts |-> of_host(all_hosts[h])])
        missing(e) ==
            \/ get_user_by_id(topo, e.ssh_user_id) = <<>>
            \/ get_host_by_user(topo, get_user_by_id(topo, e.ssh_user_id)[1]) = <<>>
        playbook(e) ==
            LET destination_user == get_user_by_id(topo, e.ssh_user_id)[1]
                destination_host == get_host_by_user(topo, destination_user)[1]
            IN  AnsiblePlaybook("deployment_instance/setup_server_ssh_keys/setup_ssh_keys.yml",
                                e.host.id,
                                <<e.user.username, destination_host.id,
                                  destination_user.username>>)
    IN  IF \E i \in DOMAIN all : missing(all[i])
        THEN [playbooks |-> <<>>, raised |-> "User not found"]
        ELSE [playbooks |-> [i \in DOMAIN all |-> playbook(all[i])], raised |-> "none"]

\* One playbook for every vulnerability of every host.
generate_vuln_playbooks(all_hosts) ==
    LET of_host(host) ==
            [k \in DOMAIN host.vulnerabilities |->
                AnsiblePlaybook(host.vulnerabilities[k].playbook_path, host.id,
                                <<host.vulnerabilities[k].type>>)]
    IN  Flatten([h \in DOMAIN all_hosts |-> of_host(all_hosts[h])])

\* One playbook for every data exfiltration goal.
generate_goal_playbooks(goals) ==
    LET data == SelectSeq(goals, LAMBDA g : g.type = "JSONDataExfiltrationGoal")
    IN  [k \in DOMAIN data |->
            AnsiblePlaybook("goals/data/addData.yml", data[k].target_host_id,
                            <<data[k].host_user>>)]

\* Faulty variant: the vulnerabilities are configured before the SSH keys.
phase_playbooks_VulnerabilitiesFirst(topo, phase) ==
    LET all_hosts == get_all_hosts(topo, FALSE)
    IN  CASE phase = 1 ->
                [playbooks |-> generate_user_creation_playbooks(all_hosts), raised |-> "none"]
          [] phase = 2 ->
                [playbooks |-> generate_vuln_playbooks(all_hosts), raised |-> "none"]
          [] phase = 3 -> generate_ssh_key_playbooks(topo, all_hosts)
          [] phase = 4 ->
                [playbooks |-> generate_goal_playbooks(topo.goals), raised |-> "none"]

\* The playbooks of the phase-th run_playbooks_serial call of
\* configure_topology_hosts, generated when the call is reached.
phase_playbooks(topo, phase) ==
    LET all_hosts == get_all_hosts(topo, FALSE)
    IN  CASE phase = 1 ->
                [playbooks |-> generate_user_creation_playbooks(all_hosts), raised |-> "none"]
          [] phase = 2 -> generate_ssh_key_playbooks(topo, all_hosts)
          [] phase = 3 ->
                [playbooks |-> generate_vuln_playbooks(all_hosts), raised |-> "none"]
          [] phase = 4 ->
                [playbooks |-> generate_goal_playbooks(topo.goals), raised |-> "none"]

OpenstackAnsibleHostBuilder ==
    [name |-> "host_builder", base |-> 0, phase |-> 0, playbooks |-> <<>>, next |-> 1,
     started |-> <<>>, completed |-> <<>>]

\* configure_topology_hosts returns at once for a topology without hosts.
ConfigureNoHosts ==
    /\ pc = "configure_topology_hosts"
    /\ host_builder.phase = 0
    /\ get_all_hosts(topology, FALSE) = <<>>
    /\ pc' = "returned"
    /\ UNCHANGED <<generation, invocation, compute, deployer, host_deployer,
                   host_builder, ansible_runner, clock, raised>>

\* The playbooks of the next phase are generated and its serial run is
\* entered, once the serial run of the phase before has returned.
ConfigurePhase ==
    /\ pc = "configure_topology_hosts"
    /\ host_builder.phase < 4
    /\ get_all_hosts(topology, FALSE) # <<>>
    /\ host_builder.next > Len(host_builder.playbooks)
    /\ ansible_runner.at = "idle"
    /\ LET generated == phase_playbooks(topology, host_builder.phase + 1)
       IN  IF generated.raised # "none"
           THEN /\ pc' = "error"
                /\ raised' = generated.raised
                /\ UNCHANGED host_builder
           ELSE /\ host_builder' = [host_builder EXCEPT !.phase = @ + 1,
                                                        !.playbooks = generated.playbooks,
                                                        !.next = 1]
                /\ UNCHANGED <<pc, raised>>
    /\ UNCHANGED <<generation, invocation, compute, deployer, host_deployer,
                   ansible_runner, clock>>

\* run_playbooks_serial: self.run_playbook(playbook) for the next playbook.
SerialRunPlaybook ==
    /\ pc = "configure_topology_hosts"
    /\ host_builder.phase > 0
    /\ host_builder.next <= Len(host_builder.playbooks)
    /\ ansible_runner.at = "idle"
    /\ ansible_runner' = run_playbook(ansible_runner, host_builder.playbooks[host_builder.next])
    /\ host_builder' =
          [host_builder EXCEPT
              !.started = Append(@, [phase |-> host_builder.phase,
                                     playbook |-> host_builder.playbooks[host_builder.next]])]
    /\ UNCHANGED <<generation, invocation, compute, deployer, host_deployer,
                   clock, pc, raised>>

\* run_playbook returned: the loop goes on with the playbook after it.
SerialPlaybookReturned ==
    /\ pc = "configure_topology_hosts"
    /\ ansible_runner.at = "returned"
    /\ ansible_runner' = [ansible_runner EXCEPT !.at = "idle"]
    /\ host_builder' =
          [host_builder EXCEPT
              !.next = @ + 1,
              !.completed = Append(@, [phase |-> host_builder.phase,
                                       playbook |-> ansible_runner.playbook])]
    /\ UNCHANGED <<generation, invocation, compute, deployer, host_deployer,
                   clock, pc, raised>>

\* run_playbook raised: nothing catches it, configure_topology_hosts ends.
SerialPlaybookRaised ==
    /\ pc = "configure_topology_hosts"
    /\ ansible_runner.at = "raised"
    /\ pc' = "error"
    /\ raised' = "Playbook failed"
    /\ UNCHANGED <<generation, invocation, orchestration>>

\* The fourth serial run has returned.
ConfigureEnd ==
    /\ pc = "configure_topology_hosts"
    /\ host_builder.phase = 4
    /\ host_builder.next > Len(host_builder.playbooks)
    /\ ansible_runner.at = "idle"
    /\ pc' = "returned"
    /\ UNCHANGED <<generation, invocation, orchestration, raised>>

(***************************************************************************)
(* SpecConfigure: one call of configure_topology_hosts on a topology of    *)
(* up to two hosts.                                                        *)
(***************************************************************************)
ConfigureHosts ==
    { <<>> } \cup
    { << [Host(1, <<KeyedUser(11, "user1", keys1)>>) EXCEPT !.vulnerabilities = v1] >> :
         keys1 \in { <<>>, <<10>>, <<99>> },
         v1 \in { <<>>, <<NetcatShellVulnerability>> } } \cup
    { << [Host(1, <<KeyedUser(11, "user1", keys1)>>) EXCEPT !.vulnerabilities = v1],
         [Host(2, <<KeyedUser(21, "user2", keys2)>>) EXCEPT !.vulnerabilities = v2] >> :
         keys1 \in { <<>>, <<21>>, <<99>> }, keys2 \in { <<>>, <<11>> },
         v1 \in { <<>>, <<NetcatShellVulnerability>> },
         v2 \in { <<>>, <<SudoBaronVulnerability>> } }

ConfigureGoals ==
    { <<>>, << Goal(1, 10) >>, << JSONDataExfiltrationGoal(1, 11, "user1") >> }

ConfigureTopologies ==
    { NetworkTopology(<< Subnet("subnet_0", TRUE, hosts) >>, <<>>, goals, <<>>) :
         hosts \in ConfigureHosts, goals \in ConfigureGoals }

InitConfigure ==
    /\ topology \in ConfigureTopologies
    /\ host_builder = OpenstackAnsibleHostBuilder
    /\ ansible_runner = AnsibleRunner
    /\ NoInvocation
    /\ compute = NoFrame
    /\ deployer = NoFrame
    /\ host_deployer = NoFrame
    /\ clock = 0
    /\ generator = NoGenerator
    /\ attack_paths = <<>>
    /\ previous_paths = <<>>
    /\ attack_graph = EmptyGraph
    /\ rng = NoRng
    /\ pc = "configure_topology_hosts"
    /\ raised = "none"

NextConfigure ==
    \/ ConfigureNoHosts
    \/ ConfigurePhase
    \/ SerialRunPlaybook
    \/ PlaybookAttempt
    \/ PlaybookEnd
    \/ SerialPlaybookReturned
    \/ SerialPlaybookRaised
    \/ ConfigureEnd

SpecConfigure == InitConfigure /\ [][NextConfigure]_vars

\* The playbooks of a phase in a log of run_playbook calls.
OfPhase(log, phase) ==
    LET entries == SelectSeq(log, LAMBDA e : e.phase = phase)
    IN  [k \in DOMAIN entries |-> entries[k].playbook]

IsPrefix(s, t) == Len(s) <= Len(t) /\ \A i \in DOMAIN s : s[i] = t[i]

\* The user-creation, SSH-trust, vulnerability and goal playbooks of the
\* topology being configured.
ExpectedPlaybooks(phase) ==
    LET all_hosts == get_all_hosts(topology, FALSE)
    IN  CASE phase = 1 -> generate_user_creation_playbooks(all_hosts)
          [] phase = 2 -> generate_ssh_key_playbooks(topology, all_hosts).playbooks
          [] phase = 3 -> generate_vuln_playbooks(all_hosts)
          [] phase = 4 -> generate_goal_playbooks(topology.goals)

\* C13: the playbooks started so far are, phase by phase, the first
\* user-creation, SSH-trust, vulnerability and goal playbooks of the
\* topology, the phases never go back, and when a playbook of a phase has
\* been started every playbook of every earlier phase has completed; once a
\* playbook has failed, no playbook of a later phase has been started.
C13_PhasesInOrder ==
    LET started == host_builder.started
        completed == host_builder.completed
    IN  /\ \A phase \in 1..4 : IsPrefix(OfPhase(started, phase), ExpectedPlaybooks(phase))
        /\ \A i, j \in DOMAIN started : i < j => started[i].phase <= started[j].phase
        /\ \A k \in DOMAIN started : \A phase \in 1..(started[k].phase - 1) :
              OfPhase(completed, phase) = ExpectedPlaybooks(phase)
        /\ IsPrefix(completed, started)
        /\ raised # "none" =>
              /\ Len(completed) >= Len(started) - 1
              /\ Len(completed) < Len(started) =>
                    \A k \in DOMAIN started :
                       started[k].phase <= started[Len(completed) + 1].phase

\* A goal playbook is running after the user-creation, SSH-trust and
\* vulnerability playbooks of two hosts have completed.
C13_Witness ==
    /\ host_builder # NoFrame
    /\ host_builder.phase = 4
    /\ ansible_runner.at = "looping"
    /\ ExpectedPlaybooks(2) # <<>>
    /\ ExpectedPlaybooks(3) # <<>>
    /\ Len(host_builder.completed) =
          Len(ExpectedPlaybooks(1)) + Len(ExpectedPlaybooks(2)) + Len(ExpectedPlaybooks(3))

(***************************************************************************)
(* host_deployer.py.  compute.servers maps the name of every server of     *)
(* the cloud to its status; a host's id stands for its name and for the id *)
(* of its instance.  host_deployer is the deployer with the frames of      *)
(* deploy_hosts (hosts, batch_size, i, batch), _deploy_host_batch          *)
(* (created_instances) and _poll_instances_until_active (poll_interval,    *)
(* max_wait, start_time, pending, cursor, completed_this_round,            *)
(* instance_id, current_status); at is the position in them.  batches      *)
(* lists the sizes of the batches begun, created is self.created_instances *)
(* in insertion order, observed_active the instances a get_server call     *)
(* has reported ACTIVE, polled tells whether get_server has been called    *)
(* since the current batch began, and failed_hosts are the hosts the       *)
(* exception raised names.                                                 *)
(***************************************************************************)
DefaultBatchSize == 10

DefaultPollInterval == 5

DefaultMaxWait == 600

ServerStatuses == { "BUILD", "ACTIVE", "ERROR" }

\* What get_server can report for a server last seen in the status.
NextStatuses(status) == IF status = "BUILD" THEN ServerStatuses ELSE { status }

\* The cloud: its servers, and the servers it holds a snapshot image of.
OpenstackCompute(servers) == [name |-> "compute", servers |-> servers, images |-> {}]

OpenstackHostDeployer(hosts, batch_size) ==
    [name |-> "host_deployer", hosts |-> hosts, batch_size |-> batch_size,
     i |-> 0, batch |-> <<>>, batches |-> <<>>,
     created_instances |-> <<>>, created |-> <<>>,
     poll_interval |-> DefaultPollInterval, max_wait |-> DefaultMaxWait,
     start_time |-> 0, pending |-> <<>>, cursor |-> 0,
     completed_this_round |-> <<>>, instance_id |-> 0, current_status |-> "none",
     observed_active |-> {}, polled |-> FALSE, failed_hosts |-> <<>>,
     at |-> "deploy_hosts"]

\* Faulty variant: a last batch shorter than batch_size is left out.
Slice_FullOnly(hosts, i, batch_size) ==
    IF i + batch_size <= Len(hosts) THEN SubSeq(hosts, i + 1, i + batch_size) ELSE <<>>

\* hosts[i : i + batch_size] for a 0-based i.
Slice(hosts, i, batch_size) ==
    SubSeq(hosts, i + 1, IF i + batch_size < Len(hosts) THEN i + batch_size ELSE Len(hosts))

\* Faulty variant: the sleep returns at once.
sleep_NoWait(now, seconds) == now

\* time.sleep(seconds): the time when it returns.
sleep(now, seconds) == now + seconds

\* Faulty variant: the instances completed in the round stay pending.
remove_completed_KeepAll(pending, completed_this_round) == pending

\* "for instance_id in completed_this_round: del pending_instances[instance_id]"
remove_completed(pending, completed_this_round) ==
    SelectSeq(pending, LAMBDA id :
                 \A k \in DOMAIN completed_this_round : completed_this_round[k] # id)

\* deploy_hosts: nothing to do for a topology without hosts, else the loop
\* over range(0, len(hosts), batch_size) is entered.
DeployHosts ==
    /\ pc = "deploy_hosts"
    /\ host_deployer.at = "deploy_hosts"
    /\ IF host_deployer.hosts = <<>>
       THEN /\ pc' = "returned"
            /\ UNCHANGED host_deployer
       ELSE /\ host_deployer' = [host_deployer EXCEPT !.at = "for_batch"]
            /\ UNCHANGED pc
    /\ UNCHANGED <<generation, invocation, compute, deployer, host_builder,
                   ansible_runner, clock, raised>>

\* One test of the batch loop: the next batch is cut and _deploy_host_batch
\* entered, or the loop and deploy_hosts end.
DeployBatch ==
    /\ pc = "deploy_hosts"
    /\ host_deployer.at = "for_batch"
    /\ IF host_deployer.i < Len(host_deployer.hosts)
       THEN /\ host_deployer' =
                  [host_deployer EXCEPT
                      !.batch = Slice(host_deployer.hosts, host_deployer.i,
                                      host_deployer.batch_size),
                      !.batches = Append(@, Len(Slice(host_deployer.hosts, host_deployer.i,
                                                      host_deployer.batch_size))),
                      !.created_instances = <<>>,
                      !.polled = FALSE,
                      !.at = "create"]
            /\ UNCHANGED pc
       ELSE /\ pc' = "returned"
            /\ UNCHANGED host_deployer
    /\ UNCHANGED <<generation, invocation, compute, deployer, host_builder,
                   ansible_runner, clock, raised>>

\* _deploy_host(host, wait_for_active=False) for the next host of the
\* batch: a server of that name must not exist; create_server adds it.
DeployHost ==
    /\ pc = "deploy_hosts"
    /\ host_deployer.at = "create"
    /\ Len(host_deployer.created_instances) < Len(host_deployer.batch)
    /\ LET host == host_deployer.batch[Len(host_deployer.created_instances) + 1]
       IN  IF host \in DOMAIN compute.servers
           THEN /\ pc' = "error"
                /\ raised' = "Instance already exists"
                /\ host_deployer' = [host_deployer EXCEPT !.failed_hosts = <<host>>]
                /\ UNCHANGED compute
           ELSE /\ compute' = [compute EXCEPT
                                  !.servers = [h \in DOMAIN compute.servers \cup { host } |->
                                                  IF h = host THEN "BUILD"
                                                  ELSE compute.servers[h]]]
                /\ host_deployer' = [host_deployer EXCEPT
                                        !.created_instances = Append(@, host),
                                        !.created = Append(@, host)]
                /\ UNCHANGED <<pc, raised>>
    /\ UNCHANGED <<generation, invocation, deployer, host_builder, ansible_runner, clock>>

\* _poll_instances_until_active(created_instances) entered.
PollInstances ==
    /\ pc = "deploy_hosts"
    /\ host_deployer.at = "create"
    /\ Len(host_deployer.created_instances) = Len(host_deployer.batch)
    /\ host_deployer' = [host_deployer EXCEPT
                            !.start_time = clock,
                            !.pending = host_deployer.created_instances,
                            !.at = "while"]
    /\ UNCHANGED <<generation, invocation, compute, deployer, host_builder,
                   ansible_runner, clock, pc, raised>>

\* "while pending_instances and (time.time() - start_time) < max_wait"
PollWhile ==
    /\ pc = "deploy_hosts"
    /\ host_deployer.at = "while"
    /\ host_deployer' =
          IF /\ host_deployer.pending # <<>>
             /\ clock - host_deployer.start_time < host_deployer.max_wait
          THEN [host_deployer EXCEPT !.completed_this_round = <<>>, !.cursor = 0,
                                     !.at = "for_pending"]
          ELSE [host_deployer EXCEPT !.at = "after_while"]
    /\ UNCHANGED <<generation, invocation, compute, deployer, host_builder,
                   ansible_runner, clock, pc, raised>>

\* One iteration of the loop over the pending instances: get_server reports
\* the status of the next one; ACTIVE completes it, ERROR raises.
GetServer ==
    /\ pc = "deploy_hosts"
    /\ host_deployer.at = "for_pending"
    /\ host_deployer.cursor < Len(host_deployer.pending)
    /\ LET instance_id == host_deployer.pending[host_deployer.cursor + 1]
       IN  \E status \in NextStatuses(compute.servers[instance_id]) :
              /\ compute' = [compute EXCEPT !.servers[instance_id] = status]
              /\ host_deployer' =
                    [host_deployer EXCEPT
                        !.cursor = @ + 1,
                        !.instance_id = instance_id,
                        !.current_status = status,
                        !.polled = TRUE,
                        !.failed_hosts = IF status = "ERROR" THEN <<instance_id>> ELSE @,
                        !.completed_this_round =
                            IF status = "ACTIVE" THEN Append(@, instance_id) ELSE @,
                        !.observed_active =
                            IF status = "ACTIVE" THEN @ \cup { instance_id } ELSE @]
              /\ IF status = "ERROR"
                 THEN /\ pc' = "error"
                      /\ raised' = "Instance failed to deploy"
                 ELSE UNCHANGED <<pc, raised>>
    /\ UNCHANGED <<generation, invocation, deployer, host_builder, ansible_runner, clock>>

\* The end of a round: the completed instances leave the pending ones, and
\* time.sleep(poll_interval) follows while some are left.
PollRoundEnd ==
    /\ pc = "deploy_hosts"
    /\ host_deployer.at = "for_pending"
    /\ host_deployer.cursor = Len(host_deployer.pending)
    /\ LET left == remove_completed(host_deployer.pending,
                                    host_deployer.completed_this_round)
       IN  /\ host_deployer' = [host_deployer EXCEPT !.pending = left, !.at = "while"]
           /\ clock' = IF left # <<>> THEN sleep(clock, host_deployer.poll_interval)
                       ELSE clock
    /\ UNCHANGED <<generation, invocation, compute, deployer, host_builder,
                   ansible_runner, pc, raised>>

\* After the while loop: a timeout error naming the pending hosts, or the
\* return to the batch loop of deploy_hosts.
PollEnd ==
    /\ pc = "deploy_hosts"
    /\ host_deployer.at = "after_while"
    /\ IF host_deployer.pending # <<>>
       THEN /\ pc' = "error"
            /\ raised' = "Timeout waiting for instances to become active"
            /\ host_deployer' = [host_deployer EXCEPT
                                    !.failed_hosts = host_deployer.pending]
       ELSE /\ host_deployer' = [host_deployer EXCEPT
                                    !.i = @ + host_deployer.batch_size,
                                    !.at = "for_batch"]
            /\ UNCHANGED <<pc, raised>>
    /\ UNCHANGED <<generation, invocation, compute, deployer, host_builder,
                   ansible_runner, clock>>

(***************************************************************************)
(* SpecDeploy: one call of deploy_hosts on a topology of up to three       *)
(* hosts, in a cloud that may already hold a server with a host's name.    *)
(***************************************************************************)
DeployTopologies ==
    { NetworkTopology(<< Subnet("subnet_0", TRUE, [k \in 1..n |-> Host(k, <<>>)]) >>,
                      <<>>, <<>>, <<>>) : n \in 0..3 }

BatchSizes == { 1, 2, 3 }

HostIds(topo) ==
    [k \in DOMAIN get_all_hosts(topo, FALSE) |-> get_all_hosts(topo, FALSE)[k].id]

InitDeploy ==
    /\ topology \in DeployTopologies
    /\ \E batch_size \in BatchSizes :
          host_deployer = OpenstackHostDeployer(HostIds(topology), batch_size)
    /\ \E existing \in { {} } \cup { { h } : h \in 1..3 } :
          compute = OpenstackCompute([h \in existing |-> "ACTIVE"])
    /\ clock = 0
    /\ NoInvocation
    /\ deployer = NoFrame
    /\ host_builder = NoFrame
    /\ ansible_runner = NoFrame
    /\ generator = NoGenerator
    /\ attack_paths = <<>>
    /\ previous_paths = <<>>
    /\ attack_graph = EmptyGraph
    /\ rng = NoRng
    /\ pc = "deploy_hosts"
    /\ raised = "none"

NextDeploy ==
    \/ DeployHosts
    \/ DeployBatch
    \/ DeployHost
    \/ PollInstances
    \/ PollWhile
    \/ GetServer
    \/ PollRoundEnd
    \/ PollEnd

SpecDeploy == InitDeploy /\ [][NextDeploy]_vars

\* The hosts of the batches before the one the k-th host is in.
EarlierBatches(hosts, batch_size, k) ==
    { hosts[j] : j \in 1..(((k - 1) \div batch_size) * batch_size) }

\* C15: the batches of deploy_hosts are cut in host-list order, each of
\* batch_size hosts but a last one of the hosts that remain, ceil(N / b)
\* of them when the call returns; in a batch no status is polled before
\* every host of the batch has been created, and a host is created only
\* after every host of the batches before it was observed ACTIVE.
C15_BatchesInOrder ==
    LET hosts == host_deployer.hosts
        b == host_deployer.batch_size
        batches == host_deployer.batches
        created == host_deployer.created
    IN  /\ \A k \in DOMAIN batches :
              /\ (k - 1) * b < Len(hosts)
              /\ batches[k] = IF k * b <= Len(hosts) THEN b ELSE Len(hosts) - (k - 1) * b
        /\ pc = "returned" => Len(batches) = (Len(hosts) + b - 1) \div b
        /\ IsPrefix(created, hosts)
        /\ Len(created) <= Len(batches) * b
        /\ host_deployer.polled =>
              Len(created) = (Len(batches) - 1) * b + batches[Len(batches)]
        /\ \A k \in DOMAIN created :
              EarlierBatches(hosts, b, k) \subseteq host_deployer.observed_active

\* Three hosts were deployed in batches of two: a batch of two, then one.
C15_Witness ==
    /\ pc = "returned"
    /\ host_deployer.batch_size = 2
    /\ host_deployer.batches = <<2, 1>>
    /\ host_deployer.created = <<1, 2, 3>>

\* C16: an instance reported in status ERROR makes the call raise at that
\* poll, naming the host, with no host of a later batch created; an
\* instance reported ACTIVE is not among the instances still to be polled,
\* in this round or in a later one.
C16_ErrorRaisesActiveLeaves ==
    /\ host_deployer.current_status = "ERROR" =>
          /\ pc = "error"
          /\ raised = "Instance failed to deploy"
          /\ host_deployer.failed_hosts = <<host_deployer.instance_id>>
          /\ host_deployer.cursor <= Len(host_deployer.pending)
          /\ host_deployer.pending[host_deployer.cursor] = host_deployer.instance_id
          /\ Len(host_deployer.created) = host_deployer.i + Len(host_deployer.batch)
    /\ host_deployer.at = "for_pending" =>
          \A k \in (host_deployer.cursor + 1)..Len(host_deployer.pending) :
             host_deployer.pending[k] \notin host_deployer.observed_active
    /\ host_deployer.at \in { "while", "after_while" } =>
          \A k \in DOMAIN host_deployer.pending :
             host_deployer.pending[k] \notin host_deployer.observed_active

\* In a batch of three the first instance was reported ACTIVE in one round
\* and, with the third still building, the second ERROR in a later one.
C16_Witness ==
    /\ pc = "error"
    /\ host_deployer.current_status = "ERROR"
    /\ host_deployer.observed_active = { 1 }
    /\ host_deployer.pending = <<2, 3>>
    /\ host_deployer.instance_id = 2
    /\ compute.servers[3] = "BUILD"

(***************************************************************************)
(* SpecPoll: one call of _poll_instances_until_active, from the moment     *)
(* _deploy_host_batch has created its instances, for a poll interval and a *)
(* maximum wait passed by the caller.  The deployer is one thread that     *)
(* keeps running, so a step that is possible is eventually taken.          *)
(***************************************************************************)
PollSettings ==
    { [poll_interval |-> DefaultPollInterval, max_wait |-> DefaultMaxWait],
      [poll_interval |-> 7, max_wait |-> 20],
      [poll_interval |-> 1, max_wait |-> 2] }

InitPoll ==
    /\ topology \in DeployTopologies
    /\ \E settings \in PollSettings :
          host_deployer =
             [OpenstackHostDeployer(HostIds(topology), Len(HostIds(topology)))
                 EXCEPT !.batch = HostIds(topology),
                        !.batches = << Len(HostIds(topology)) >>,
                        !.created_instances = HostIds(topology),
                        !.created = HostIds(topology),
                        !.poll_interval = settings.poll_interval,
                        !.max_wait = settings.max_wait,
                        !.at = "create"]
    /\ compute = OpenstackCompute([h \in 1..Len(HostIds(topology)) |-> "BUILD"])
    /\ clock \in { 0, 3 }
    /\ NoInvocation
    /\ deployer = NoFrame
    /\ host_builder = NoFrame
    /\ ansible_runner = NoFrame
    /\ generator = NoGenerator
    /\ attack_paths = <<>>
    /\ previous_paths = <<>>
    /\ attack_graph = EmptyGraph
    /\ rng = NoRng
    /\ pc = "deploy_hosts"
    /\ raised = "none"

NextPoll ==
    \/ PollInstances
    \/ PollWhile
    \/ GetServer
    \/ PollRoundEnd
    \/ PollEnd
    \/ DeployBatch

SpecPoll == InitPoll /\ [][NextPoll]_vars /\ WF_vars(NextPoll)

\* The instances of the call that no poll has reported ACTIVE, in order.
NotObservedActive ==
    SelectSeq(host_deployer.created_instances,
              LAMBDA id : id \notin host_deployer.observed_active)

PollOutcome ==
    /\ pc = "returned" =>
          \A k \in DOMAIN host_deployer.created_instances :
             host_deployer.created_instances[k] \in host_deployer.observed_active
    /\ (pc = "error" /\ host_deployer.at = "after_while") =>
          /\ raised = "Timeout waiting for instances to become active"
          /\ host_deployer.failed_hosts # <<>>
          /\ host_deployer.failed_hosts = NotObservedActive
          /\ clock - host_deployer.start_time >= host_deployer.max_wait
    /\ (pc = "error" /\ host_deployer.at # "after_while") =>
          raised = "Instance failed to deploy"

\* C17: the polling call ends, by returning or by raising; it returns only
\* with every instance of the batch observed ACTIVE, and the timeout error,
\* raised with instances pending once the maximum wait has passed, names
\* exactly the instances not observed ACTIVE.
C17_PollingTerminates ==
    /\ <>(pc \in { "returned", "error" })
    /\ []PollOutcome

\* The polling timed out with the first and third of three instances
\* ACTIVE and the second still building.
C17_Witness ==
    /\ pc = "error"
    /\ host_deployer.at = "after_while"
    /\ host_deployer.failed_hosts = <<2>>
    /\ host_deployer.observed_active = { 1, 3 }
    /\ host_deployer.max_wait = DefaultMaxWait

(***************************************************************************)
(* env_gen_deployer.py.  deployer is the frame of compile_environment:     *)
(* stage is the index of the statement it is at, completed the stages that *)
(* have returned, at tells whether it is between stages or inside a call   *)
(* of deploy_hosts or setup_hosts.  The management host is server -1, the  *)
(* attacker host server 0.                                                 *)
(***************************************************************************)
CompileStages ==
    << "clean_environment", "deploy_network", "deploy_management_network",
       "deploy_attacker_network", "deploy_hosts", "setup_hosts",
       "clean_snapshots", "save_all_snapshots" >>

EnvGenDeployer == [name |-> "deployer", stage |-> 1, completed |-> <<>>, at |-> "stage"]

ManagementHost == 0 - 1

AttackerHost == create_default_external_attacker.id

\* The cloud with one more server, ACTIVE once its deployer has returned.
WithServer(cloud, server) ==
    [cloud EXCEPT !.servers = [h \in DOMAIN cloud.servers \cup { server } |->
                                  IF h = server THEN "ACTIVE" ELSE cloud.servers[h]]]

\* The cloud after a stage without a call frame of its own has returned.
\* save_all_snapshots saves an image of every server listed.
stage_effect(cloud, stage) ==
    CASE stage = "clean_environment" -> [cloud EXCEPT !.servers = [h \in {} |-> "ACTIVE"]]
      [] stage = "deploy_network" -> cloud
      [] stage = "deploy_management_network" -> WithServer(cloud, ManagementHost)
      [] stage = "deploy_attacker_network" -> WithServer(cloud, AttackerHost)
      [] stage = "clean_snapshots" -> [cloud EXCEPT !.images = {}]
      [] stage = "save_all_snapshots" -> [cloud EXCEPT !.images = DOMAIN cloud.servers]

\* The cloud when the stage raises part way through: save_all_snapshots
\* has saved the images of some of the servers.
stage_partial_effects(cloud, stage) ==
    IF stage = "save_all_snapshots"
    THEN { [cloud EXCEPT !.images = saved] :
              saved \in (SUBSET DOMAIN cloud.servers) \ { DOMAIN cloud.servers } }
    ELSE { cloud }

\* Faulty variant: the exception of a stage is swallowed and the next stage
\* is entered.
after_stage_Swallowed(frame, ok) ==
    [frame |-> [frame EXCEPT !.stage = @ + 1,
                             !.completed = IF ok THEN Append(@, CompileStages[frame.stage])
                                           ELSE @,
                             !.at = "stage"],
     pc |-> IF frame.stage < Len(CompileStages) THEN "compile_environment" ELSE "returned",
     raised |-> "none"]

\* The frame once the stage has returned (ok) or raised: nothing in
\* compile_environment catches an exception.
after_stage(frame, ok) ==
    IF ok
    THEN [frame |-> [frame EXCEPT !.stage = @ + 1,
                                  !.completed = Append(@, CompileStages[frame.stage]),
                                  !.at = "stage"],
          pc |-> IF frame.stage < Len(CompileStages) THEN "compile_environment"
                 ELSE "returned",
          raised |-> "none"]
    ELSE [frame |-> frame, pc |-> "error", raised |-> "Stage failed"]

\* A stage that is a single call into the cloud layer returns or raises.
CompileStage ==
    /\ pc = "compile_environment"
    /\ deployer.stage <= Len(CompileStages)
    /\ CompileStages[deployer.stage] \notin { "deploy_hosts", "setup_hosts" }
    /\ \E ok \in BOOLEAN :
          /\ deployer' = after_stage(deployer, ok).frame
          /\ pc' = after_stage(deployer, ok).pc
          /\ raised' = after_stage(deployer, ok).raised
          /\ IF ok
             THEN compute' = stage_effect(compute, CompileStages[deployer.stage])
             ELSE compute' \in stage_partial_effects(compute, CompileStages[deployer.stage])
    /\ UNCHANGED <<generation, invocation, host_deployer, host_builder,
                   ansible_runner, clock>>

\* self.deploy_hosts(topology, use_base_image=True): a host deployer is
\* made and its deploy_hosts called with the default batch size.
CompileDeployHosts ==
    /\ pc = "compile_environment"
    /\ deployer.stage <= Len(CompileStages)
    /\ CompileStages[deployer.stage] = "deploy_hosts"
    /\ host_deployer' = OpenstackHostDeployer(HostIds(topology), DefaultBatchSize)
    /\ deployer' = [deployer EXCEPT !.at = "called"]
    /\ pc' = "deploy_hosts"
    /\ UNCHANGED <<generation, invocation, compute, host_builder, ansible_runner,
                   clock, raised>>

\* self.setup_hosts(topology): a runner and a host builder are made and
\* the builder's setup_hosts called, which begins with the base
\* dependencies.
CompileSetupHosts ==
    /\ pc = "compile_environment"
    /\ deployer.stage <= Len(CompileStages)
    /\ CompileStages[deployer.stage] = "setup_hosts"
    /\ ansible_runner' = AnsibleRunner
    /\ host_builder' = OpenstackAnsibleHostBuilder
    /\ deployer' = [deployer EXCEPT !.at = "called"]
    /\ pc' = "setup_base_dependencies"
    /\ UNCHANGED <<generation, invocation, compute, host_deployer, clock, raised>>

\* The three playbooks of setup_base_dependencies.
base_playbooks(topo) ==
    << AnsiblePlaybook("deployment_instance/install_base_packages.yml", HostIds(topo), <<>>),
       AnsiblePlaybook("deployment_instance/install_kali_packages.yml", AttackerHost, <<>>),
       AnsiblePlaybook("deployment_instance/setup_server_ssh_keys/create_ssh_key.yml",
                       AttackerHost, <<"root">>) >>

\* setup_base_dependencies: the next run_playbook call, or its end, where
\* setup_hosts goes on to configure_topology_hosts.
BaseRunPlaybook ==
    /\ pc = "setup_base_dependencies"
    /\ ansible_runner.at = "idle"
    /\ IF host_builder.base < Len(base_playbooks(topology))
       THEN /\ ansible_runner' =
                  run_playbook(ansible_runner, base_playbooks(topology)[host_builder.base + 1])
            /\ UNCHANGED pc
       ELSE /\ pc' = "configure_topology_hosts"
            /\ UNCHANGED ansible_runner
    /\ UNCHANGED <<generation, invocation, compute, deployer, host_deployer,
                   host_builder, clock, raised>>

\* A run_playbook call of setup_base_dependencies returned or raised.
BasePlaybookDone ==
    /\ pc = "setup_base_dependencies"
    /\ ansible_runner.at \in { "returned", "raised" }
    /\ IF ansible_runner.at = "returned"
       THEN /\ ansible_runner' = [ansible_runner EXCEPT !.at = "idle"]
            /\ host_builder' = [host_builder EXCEPT !.base = @ + 1]
            /\ UNCHANGED <<pc, raised>>
       ELSE /\ pc' = "error"
            /\ raised' = "Playbook failed"
            /\ UNCHANGED <<ansible_runner, host_builder>>
    /\ UNCHANGED <<generation, invocation, compute, deployer, host_deployer, clock>>

\* deploy_hosts or setup_hosts returned to compile_environment.
CompileResume ==
    /\ pc = "returned"
    /\ deployer.at = "called"
    /\ deployer' = after_stage(deployer, TRUE).frame
    /\ pc' = after_stage(deployer, TRUE).pc
    /\ UNCHANGED <<generation, invocation, compute, host_deployer, host_builder,
                   ansible_runner, clock, raised>>

(***************************************************************************)
(* SpecCompile: one call of compile_environment on a topology of up to two *)
(* hosts, in a cloud that may hold servers and images of an earlier        *)
(* deployment.                                                             *)
(***************************************************************************)
CompileTopologies ==
    { NetworkTopology(<< Subnet("subnet_0", TRUE, [k \in 1..n |-> Host(k, <<>>)]) >>,
                      <<>>, <<>>, <<>>) : n \in 0..2 }

InitCompile ==
    /\ topology \in CompileTopologies
    /\ deployer = EnvGenDeployer
    /\ \E existing \in { {}, { ManagementHost, AttackerHost, 1 } } :
          compute = [OpenstackCompute([h \in existing |-> "ACTIVE"])
                        EXCEPT !.images = existing]
    /\ host_deployer = NoFrame
    /\ host_builder = NoFrame
    /\ ansible_runner = NoFrame
    /\ clock = 0
    /\ NoInvocation
    /\ generator = NoGenerator
    /\ attack_paths = <<>>
    /\ previous_paths = <<>>
    /\ attack_graph = EmptyGraph
    /\ rng = NoRng
    /\ pc = "compile_environment"
    /\ raised = "none"

NextCompile ==
    \/ CompileStage
    \/ CompileDeployHosts
    \/ DeployHosts
    \/ DeployBatch
    \/ DeployHost
    \/ PollInstances
    \/ PollWhile
    \/ GetServer
    \/ PollRoundEnd
    \/ PollEnd
    \/ CompileSetupHosts
    \/ BaseRunPlaybook
    \/ BasePlaybookDone
    \/ ConfigureNoHosts
    \/ ConfigurePhase
    \/ SerialRunPlaybook
    \/ PlaybookAttempt
    \/ PlaybookEnd
    \/ SerialPlaybookReturned
    \/ SerialPlaybookRaised
    \/ ConfigureEnd
    \/ CompileResume

SpecCompile == InitCompile /\ [][NextCompile]_vars

\* The rank of the deployment state reached with the stages completed:
\* 0 NotDeployed, 1 NetworkDeployed (the per-subnet, management and
\* attacker networks are up), 2 HostsProvisioned, 3 Configured,
\* 4 Snapshotted.
DeploymentState(completed) ==
    LET has(stage) == \E k \in DOMAIN completed : completed[k] = stage
    IN  IF has("save_all_snapshots") THEN 4
        ELSE IF has("setup_hosts") THEN 3
        ELSE IF has("deploy_hosts") THEN 2
        ELSE IF has("deploy_network") /\ has("deploy_management_network")
                /\ has("deploy_attacker_network") THEN 1
        ELSE 0

CompileOrder ==
    /\ IsPrefix(deployer.completed,
                << "clean_environment", "deploy_network", "deploy_management_network",
                   "deploy_attacker_network", "deploy_hosts", "setup_hosts",
                   "clean_snapshots", "save_all_snapshots" >>)
    /\ Len(deployer.completed) >= 5 =>
          /\ host_deployer # NoFrame
          /\ \A k \in DOMAIN host_deployer.hosts :
                host_deployer.hosts[k] \in host_deployer.observed_active
    /\ Len(deployer.completed) >= 6 =>
          /\ host_builder # NoFrame
          /\ host_builder.base = 3
          /\ \A phase \in 1..4 :
                OfPhase(host_builder.completed, phase) = ExpectedPlaybooks(phase)
    /\ (pc = "returned" /\ deployer.at = "stage") => Len(deployer.completed) = 8
    /\ Len(deployer.completed) = 8 =>
          compute.images = { ManagementHost, AttackerHost } \cup
                           { HostIds(topology)[k] : k \in DOMAIN HostIds(topology) }

CompileAdvance ==
    /\ DeploymentState(deployer.completed') \in
          { DeploymentState(deployer.completed), DeploymentState(deployer.completed) + 1 }
    /\ pc = "error" => /\ pc' = "error"
                       /\ deployer' = deployer
                       /\ compute' = compute
    /\ compute.images' # compute.images =>
          /\ Len(deployer.completed) >= 6
          /\ pc = "compile_environment"

\* C14: the stages of compile_environment complete in the order clean,
\* networks, management network, attacker network, host provisioning, host
\* configuration, deletion of the snapshots, snapshot of every server; the
\* deployment state stays or moves to the next of NotDeployed,
\* NetworkDeployed, HostsProvisioned, Configured, Snapshotted; after an
\* error no stage runs, and images change only once the hosts are
\* configured.
C14_CompileStagesInOrder ==
    /\ []CompileOrder
    /\ [][CompileAdvance]_vars

\* The call returned with two hosts deployed, configured and snapshotted.
C14_Witness ==
    /\ pc = "returned"
    /\ deployer # NoFrame
    /\ deployer.at = "stage"
    /\ Len(deployer.completed) = 8
    /\ Len(HostIds(topology)) = 2
    /\ compute.images = { ManagementHost, AttackerHost, 1, 2 }

(***************************************************************************)
(* runtime_setup of EnvGenDeployer (env_gen_deployer.py) and of            *)
(* Environment (environment.py).  deployer is the frame: class tells whose *)
(* method runs, i is the loop counter, errors the attempts that raised,    *)
(* restores the times the attacker host was rebuilt from its snapshot.     *)
(***************************************************************************)
install_trials == 3

RuntimeSetup(class) ==
    [name |-> "runtime_setup", class |-> class, i |-> 0, errors |-> 0,
     restores |-> 0, at |-> "for"]

InstallAttacker == AnsiblePlaybook("caldera/install_attacker.yml", AttackerHost, <<"root">>)

\* The servers the except branch rebuilds from their snapshot:
\* EnvGenDeployer rebuilds none; Environment rebuilds every server whose
\* name holds "attacker" and that has a snapshot image.
restored_hosts(class, cloud) ==
    IF class = "Environment"
    THEN { h \in DOMAIN cloud.servers : h = AttackerHost /\ h \in cloud.images }
    ELSE {}

\* The time the except branch sleeps: EnvGenDeployer 15 s, Environment
\* 15 s for every server whose name holds "attacker".
backoff(class, cloud) ==
    IF class = "Environment"
    THEN 15 * Cardinality({ h \in DOMAIN cloud.servers : h = AttackerHost })
    ELSE 15

\* One test of "for i in range(install_trials)": the next run_playbook call
\* of the installation, or the end of the loop.
RuntimeAttempt ==
    /\ pc = "runtime_setup"
    /\ deployer.at = "for"
    /\ IF deployer.i < install_trials
       THEN /\ ansible_runner' = run_playbook(ansible_runner, InstallAttacker)
            /\ deployer' = [deployer EXCEPT !.at = "try"]
       ELSE /\ deployer' = [deployer EXCEPT !.at = "after"]
            /\ UNCHANGED ansible_runner
    /\ UNCHANGED <<generation, invocation, compute, host_deployer, host_builder,
                   clock, pc, raised>>

\* run_playbook returned (break) or raised (the except branch, then the
\* next iteration).
RuntimeAttemptDone ==
    /\ pc = "runtime_setup"
    /\ deployer.at = "try"
    /\ ansible_runner.at \in { "returned", "raised" }
    /\ IF ansible_runner.at = "returned"
       THEN /\ deployer' = [deployer EXCEPT !.at = "after"]
            /\ UNCHANGED clock
       ELSE /\ deployer' =
                  [deployer EXCEPT
                      !.errors = @ + 1,
                      !.restores = @ + Cardinality(restored_hosts(deployer.class, compute)),
                      !.i = @ + 1,
                      !.at = "for"]
            /\ clock' = sleep(clock, backoff(deployer.class, compute))
    /\ ansible_runner' = [ansible_runner EXCEPT !.at = "idle"]
    /\ UNCHANGED <<generation, invocation, compute, host_deployer, host_builder,
                   pc, raised>>

\* "if errors == install_trials: raise"
RuntimeEnd ==
    /\ pc = "runtime_setup"
    /\ deployer.at = "after"
    /\ IF deployer.errors = install_trials
       THEN /\ pc' = "error"
            /\ raised' = "Failed to install attacker host"
       ELSE /\ pc' = "returned"
            /\ UNCHANGED raised
    /\ UNCHANGED <<generation, invocation, orchestration>>

(***************************************************************************)
(* SpecRuntime: one call of runtime_setup of either class, in a cloud with *)
(* the management and attacker hosts, with or without the attacker's       *)
(* snapshot.                                                               *)
(***************************************************************************)
InitRuntime ==
    /\ \E class \in { "EnvGenDeployer", "Environment" } : deployer = RuntimeSetup(class)
    /\ \E images \in { { ManagementHost }, { ManagementHost, AttackerHost } } :
          compute = [OpenstackCompute([h \in { ManagementHost, AttackerHost } |-> "ACTIVE"])
                        EXCEPT !.images = images]
    /\ ansible_runner = AnsibleRunner
    /\ host_deployer = NoFrame
    /\ host_builder = NoFrame
    /\ clock = 0
    /\ NoInvocation
    /\ generator = NoGenerator
    /\ topology = NoTopology
    /\ attack_paths = <<>>
    /\ previous_paths = <<>>
    /\ attack_graph = EmptyGraph
    /\ rng = NoRng
    /\ pc = "runtime_setup"
    /\ raised = "none"

NextRuntime ==
    \/ RuntimeAttempt
    \/ PlaybookAttempt
    \/ PlaybookEnd
    \/ RuntimeAttemptDone
    \/ RuntimeEnd

SpecRuntime == InitRuntime /\ [][NextRuntime]_vars

\* C18: runtime_setup makes at most 3 installation attempts, returns after
\* the first that succeeds, has restored the attacker host once for every
\* failed attempt when it retries, and raises exactly when 3 attempts
\* failed.
C18_RuntimeSetupRetries ==
    /\ deployer.i + (IF deployer.at = "try" THEN 1 ELSE 0) <= 3
    /\ deployer.at = "try" => deployer.restores = deployer.errors
    /\ pc = "returned" => deployer.errors < 3 /\ deployer.errors = deployer.i
    /\ pc = "error" => deployer.errors = 3
    /\ (deployer.at = "after" /\ deployer.errors = 3) => pc # "returned"

(***************************************************************************)
(* AnsibleRunner.run_playbooks_async.  The frame holds the playbooks, the  *)
(* offset i of the current group, the threads and runners lists (a thread  *)
(* is "running" until its join has returned, a runner "running" until its *)
(* run has ended with one of the final statuses) and the position j of     *)
(* the join loop.  A run ends, as far as the caller can tell, when its     *)
(* thread is joined.                                                       *)
(***************************************************************************)
AsyncGroupSize == 10

\* At most this many runs of a call end with a status other than successful.
MaxUnsuccessful == 2

MaxPlaybooks == 12

run_playbooks_async(playbooks) ==
    [name |-> "run_playbooks_async", playbooks |-> playbooks, i |-> 0,
     threads |-> <<>>, runners |-> <<>>, j |-> 0, at |-> "for_group"]

Unsuccessful(runners) ==
    Cardinality({ k \in DOMAIN runners : runners[k] \notin { "running", "successful" } })

\* One test of "for i in range(0, len(playbooks), 10)".
AsyncGroup ==
    /\ pc = "run_playbooks_async"
    /\ ansible_runner.at = "for_group"
    /\ IF ansible_runner.i < Len(ansible_runner.playbooks)
       THEN /\ ansible_runner' = [ansible_runner EXCEPT !.at = "start"]
            /\ UNCHANGED pc
       ELSE /\ pc' = "returned"
            /\ UNCHANGED ansible_runner
    /\ UNCHANGED <<generation, invocation, compute, deployer, host_deployer,
                   host_builder, clock, raised>>

\* ansible_runner.run_async for the next playbook of playbooks[i : i + 10],
\* or, with all of them started, the beginning of the join loop.
AsyncStart ==
    /\ pc = "run_playbooks_async"
    /\ ansible_runner.at = "start"
    /\ LET group == Slice(ansible_runner.playbooks, ansible_runner.i, AsyncGroupSize)
           started == Len(ansible_runner.threads) - ansible_runner.i
       IN  ansible_runner' =
              IF started < Len(group)
              THEN [ansible_runner EXCEPT !.threads = Append(@, "running"),
                                          !.runners = Append(@, "running")]
              ELSE [ansible_runner EXCEPT !.at = "join", !.j = 0]
    /\ UNCHANGED <<generation, invocation, compute, deployer, host_deployer,
                   host_builder, clock, pc, raised>>

\* thread.join() for the next thread of threads: it returns once the run
\* has ended, with the runner in a final status.
AsyncJoin ==
    /\ pc = "run_playbooks_async"
    /\ ansible_runner.at = "join"
    /\ ansible_runner.j < Len(ansible_runner.threads)
    /\ LET k == ansible_runner.j + 1
       IN  \E status \in AnsibleStatuses :
              /\ ansible_runner.runners[k] # "running" => status = ansible_runner.runners[k]
              /\ (status # "successful" /\ ansible_runner.runners[k] = "running") =>
                    Unsuccessful(ansible_runner.runners) < MaxUnsuccessful
              /\ ansible_runner' = [ansible_runner EXCEPT !.j = k,
                                                          !.threads[k] = "joined",
                                                          !.runners[k] = status]
    /\ UNCHANGED <<generation, invocation, compute, deployer, host_deployer,
                   host_builder, clock, pc, raised>>

\* "for runner in runners: if runner.status == 'failed': raise", then the
\* next group.
AsyncCheck ==
    /\ pc = "run_playbooks_async"
    /\ ansible_runner.at = "join"
    /\ ansible_runner.j = Len(ansible_runner.threads)
    /\ IF \E k \in DOMAIN ansible_runner.runners : ansible_runner.runners[k] = "failed"
       THEN /\ pc' = "error"
            /\ raised' = "Playbook failed"
            /\ UNCHANGED ansible_runner
       ELSE /\ ansible_runner' = [ansible_runner EXCEPT !.i = @ + AsyncGroupSize,
                                                        !.at = "for_group"]
            /\ UNCHANGED <<pc, raised>>
    /\ UNCHANGED <<generation, invocation, compute, deployer, host_deployer,
                   host_builder, clock>>

(***************************************************************************)
(* SpecAsync: one call of run_playbooks_async with up to MaxPlaybooks      *)
(* playbooks.                                                              *)
(***************************************************************************)
InitAsync ==
    /\ \E n \in 0..MaxPlaybooks :
          ansible_runner =
             run_playbooks_async([k \in 1..n |->
                                     AnsiblePlaybook("common/createUser/createUser.yml", k, <<>>)])
    /\ compute = NoFrame
    /\ deployer = NoFrame
    /\ host_deployer = NoFrame
    /\ host_builder = NoFrame
    /\ clock = 0
    /\ NoInvocation
    /\ generator = NoGenerator
    /\ topology = NoTopology
    /\ attack_paths = <<>>
    /\ previous_paths = <<>>
    /\ attack_graph = EmptyGraph
    /\ rng = NoRng
    /\ pc = "run_playbooks_async"
    /\ raised = "none"

NextAsync == AsyncGroup \/ AsyncStart \/ AsyncJoin \/ AsyncCheck

SpecAsync == InitAsync /\ [][NextAsync]_vars

\* C20: at most 10 runs are in flight; no playbook of a group is started
\* while a run of an earlier group is unjoined or has ended with a status
\* other than successful; and the call returns only when every run it
\* started has ended successful.
C20_AsyncGroupsFailTogether ==
    LET threads == ansible_runner.threads
        runners == ansible_runner.runners
    IN  /\ Cardinality({ k \in DOMAIN threads : threads[k] = "running" }) <= 10
        /\ \A k \in DOMAIN threads :
              \A e \in 1..(((k - 1) \div 10) * 10) :
                 threads[e] = "joined" /\ runners[e] = "successful"
        /\ pc = "returned" =>
              /\ Len(runners) = Len(ansible_runner.playbooks)
              /\ \A k \in DOMAIN runners : runners[k] = "successful"
        /\ pc = "error" => \A k \in DOMAIN threads : threads[k] = "joined"

(***************************************************************************)
(* Snapshots: OpenstackImager._save_snapshot (imager.py) and               *)
(* Environment.save_snapshot (environment.py), the same code in both.      *)
(* The cloud holds a list of images, each with its id and its name; the    *)
(* name of a host's snapshot is the pair of the host's name and the        *)
(* suffix.  made counts the images ever created, which gives the ids;      *)
(* rebuilds and deleted list the servers of the rebuild_server and         *)
(* delete_server calls made.                                               *)
(* deployer is the frame of the save: class, host, the image get_image     *)
(* found (<<>> for None), the calls made so far and the position.          *)
(***************************************************************************)
MaxSaves == 3

IMAGE_NAME_SUFFIX == "_image"

get_image_name(host_name) == <<host_name, IMAGE_NAME_SUFFIX>>

ImageCloud(servers, images) ==
    [name |-> "compute", servers |-> servers, images |-> images, made |-> Len(images),
     rebuilds |-> <<>>, deleted |-> <<>>]

\* conn.get_image(name): <<>> for None, else the image of that name.
get_image(cloud, image_name) ==
    LET found == SelectSeq(cloud.images, LAMBDA image : image.name = image_name)
    IN  IF found = <<>> THEN <<>> ELSE <<found[1]>>

\* Faulty variant: the image stays.
delete_image_Kept(cloud, image_id) == cloud

\* conn.delete_image(image_id, wait=True)
delete_image(cloud, image_id) ==
    [cloud EXCEPT !.images = SelectSeq(@, LAMBDA image : image.id # image_id)]

\* conn.create_image_snapshot(name, server_id, wait=True): a new image.
create_image_snapshot(cloud, image_name, server) ==
    [cloud EXCEPT !.images = Append(@, [id |-> cloud.made + 1, name |-> image_name,
                                        server |-> server]),
                  !.made = @ + 1]

Snapshotter(class) ==
    [name |-> "snapshotter", class |-> class, host |-> 0, image |-> <<>>,
     saves |-> 0, latest |-> <<>>, at |-> "idle"]

\* save_snapshot(host) is called: the name is formed and get_image looks
\* for an image of that name.
SaveSnapshot ==
    /\ pc = "snapshots"
    /\ deployer.at = "idle"
    /\ deployer.saves < MaxSaves
    /\ \E host \in DOMAIN compute.servers :
          deployer' = [deployer EXCEPT !.host = host,
                                       !.image = get_image(compute, get_image_name(host)),
                                       !.saves = @ + 1,
                                       !.at = "if_image"]
    /\ UNCHANGED <<generation, invocation, compute, host_deployer, host_builder,
                   ansible_runner, clock, pc, raised>>

\* "if image: delete_image(image.id, wait=True)"; the delete may raise.
SaveDeleteExisting ==
    /\ pc = "snapshots"
    /\ deployer.at = "if_image"
    /\ IF deployer.image = <<>>
       THEN /\ deployer' = [deployer EXCEPT !.at = "create"]
            /\ UNCHANGED <<compute, raised>>
       ELSE \E ok \in BOOLEAN :
               IF ok
               THEN /\ compute' = delete_image(compute, deployer.image[1].id)
                    /\ deployer' = [deployer EXCEPT !.at = "create"]
                    /\ UNCHANGED raised
               ELSE /\ deployer' = [deployer EXCEPT !.at = "idle"]
                    /\ raised' = "delete_image failed"
                    /\ UNCHANGED compute
    /\ UNCHANGED <<generation, invocation, host_deployer, host_builder,
                   ansible_runner, clock, pc>>

\* create_image_snapshot(snapshot_name, host.id, wait=True) and the return
\* of the new image's id; the create may raise.
SaveCreate ==
    /\ pc = "snapshots"
    /\ deployer.at = "create"
    /\ \E ok \in BOOLEAN :
          IF ok
          THEN /\ compute' = create_image_snapshot(compute, get_image_name(deployer.host),
                                                   deployer.host)
               /\ deployer' = [deployer EXCEPT
                                  !.latest = Append(@, [host |-> deployer.host,
                                                        id |-> compute.made + 1]),
                                  !.at = "idle"]
               /\ raised' = "none"
          ELSE /\ deployer' = [deployer EXCEPT !.at = "idle"]
               /\ raised' = "create_image_snapshot failed"
               /\ UNCHANGED compute
    /\ UNCHANGED <<generation, invocation, host_deployer, host_builder,
                   ansible_runner, clock, pc>>

(***************************************************************************)
(* SpecSnapshot: up to MaxSaves saves of the hosts of a cloud that holds   *)
(* at most one image of a name when the first save begins.                 *)
(***************************************************************************)
SnapshotHosts == { 1, 2 }

InitSnapshot ==
    /\ \E class \in { "OpenstackImager", "Environment" } : deployer = Snapshotter(class)
    /\ \E stale \in SUBSET SnapshotHosts :
          compute = ImageCloud([h \in SnapshotHosts |-> "ACTIVE"],
                               IF stale = {} THEN <<>>
                               ELSE IF stale = { 1 }
                               THEN << [id |-> 1, name |-> get_image_name(1), server |-> 1] >>
                               ELSE IF stale = { 2 }
                               THEN << [id |-> 1, name |-> get_image_name(2), server |-> 2] >>
                               ELSE << [id |-> 1, name |-> get_image_name(1), server |-> 1],
                                       [id |-> 2, name |-> get_image_name(2), server |-> 2] >>)
    /\ host_deployer = NoFrame
    /\ host_builder = NoFrame
    /\ ansible_runner = NoFrame
    /\ clock = 0
    /\ NoInvocation
    /\ generator = NoGenerator
    /\ topology = NoTopology
    /\ attack_paths = <<>>
    /\ previous_paths = <<>>
    /\ attack_graph = EmptyGraph
    /\ rng = NoRng
    /\ pc = "snapshots"
    /\ raised = "none"

NextSnapshot == SaveSnapshot \/ SaveDeleteExisting \/ SaveCreate

SpecSnapshot == InitSnapshot /\ [][NextSnapshot]_vars

\* The images of the cloud with the snapshot name of the host.
ImagesOf(host) ==
    SelectSeq(compute.images, LAMBDA image : image.name = get_image_name(host))

\* The id returned by the latest save of the host that created an image.
LatestSaved(host) ==
    LET mine == SelectSeq(deployer.latest, LAMBDA e : e.host = host)
    IN  IF mine = <<>> THEN <<>> ELSE << mine[Len(mine)].id >>

\* C21: the cloud never holds two images with a host's snapshot name; when
\* a save creates the image no image of that name is left, and the image of
\* a host that some save created an image for is the one created by the
\* latest of them.
C21_OneImagePerHost ==
    /\ \A host \in SnapshotHosts : Len(ImagesOf(host)) <= 1
    /\ deployer.at = "create" => ImagesOf(deployer.host) = <<>>
    /\ \A host \in SnapshotHosts :
          (LatestSaved(host) # <<>> /\ ImagesOf(host) # <<>>) =>
             ImagesOf(host)[1].id = LatestSaved(host)[1]
    /\ (deployer.at = "idle" /\ raised = "none" /\ deployer.saves > 0) =>
          /\ Len(ImagesOf(deployer.host)) = 1
          /\ LatestSaved(deployer.host) = << ImagesOf(deployer.host)[1].id >>

\* Host 1, which had a stale image, was saved twice: its one image is the
\* third made.
C21_Witness ==
    /\ deployer.at = "idle"
    /\ raised = "none"
    /\ deployer.saves = 2
    /\ Len(deployer.latest) = 2
    /\ deployer.latest[1].host = 1
    /\ deployer.latest[2].host = 1
    /\ compute.made = 4
    /\ Len(ImagesOf(1)) = 1
    /\ ImagesOf(1)[1].id = 4

(***************************************************************************)
(* Environment.load_snapshot, load_all_snapshots, get_error_hosts and      *)
(* rebuild_error_hosts (environment.py).  A server object has a name, an   *)
(* id and a private_v4 address; the address is a string, which has no      *)
(* name.                                                                   *)
(***************************************************************************)
Address(host) == [kind |-> "address", value |-> host]

Server(cloud, host) ==
    [kind |-> "server", id |-> host, name |-> host, status |-> cloud.servers[host],
     private_v4 |-> Address(host)]

\* conn.list_servers()
list_servers(cloud) ==
    LET RECURSIVE Listed(_)
        Listed(hosts) ==
            IF hosts = {} THEN <<>>
            ELSE LET first == CHOOSE h \in hosts : \A other \in hosts : h <= other
                 IN  <<Server(cloud, first)>> \o Listed(hosts \ { first })
    IN  Listed(DOMAIN cloud.servers)

\* conn.rebuild_server(server_id, image_id): raises for a server that does
\* not exist, else the server ends in the status given.
rebuild_server(cloud, server_id, status) ==
    IF server_id \notin DOMAIN cloud.servers
    THEN [cloud |-> cloud, raised |-> "Server not found"]
    ELSE [cloud |-> [cloud EXCEPT !.servers[server_id] = status,
                                  !.rebuilds = Append(@, server_id)],
          raised |-> "none"]

\* load_snapshot(host, wait): host.name is read first; the rebuild is made
\* only "if image", and the call returns either way.
load_snapshot(cloud, host, status) ==
    IF host.kind # "server"
    THEN [cloud |-> cloud, raised |-> "AttributeError"]
    ELSE IF get_image(cloud, get_image_name(host.name)) = <<>>
    THEN [cloud |-> cloud, raised |-> "none"]
    ELSE rebuild_server(cloud, host.id, status)

\* get_error_hosts
get_error_hosts(cloud) ==
    SelectSeq(list_servers(cloud), LAMBDA host : host.status = "ERROR")

\* conn.delete_server(server_id, wait=True)
delete_server(cloud, server_id) ==
    [cloud EXCEPT !.servers = [h \in DOMAIN cloud.servers \ { server_id } |-> cloud.servers[h]],
                  !.deleted = Append(@, server_id)]

\* The loads of load_all_snapshots from host k on, each rebuild ending in
\* one of the statuses: the clouds that can result, with what was raised.
RECURSIVE LoadAll(_, _, _)
LoadAll(cloud, hosts, k) ==
    IF k > Len(hosts) THEN { [cloud |-> cloud, raised |-> "none"] }
    ELSE UNION { LET loaded == load_snapshot(cloud, hosts[k], status)
                 IN  IF loaded.raised # "none" THEN { loaded }
                     ELSE LoadAll(loaded.cloud, hosts, k + 1) :
                 status \in { "ACTIVE", "ERROR" } }

\* load_all_snapshots: every image must exist, then every server is
\* rebuilt and the rebuilds are waited for.
load_all_snapshots(cloud) ==
    LET hosts == list_servers(cloud)
    IN  IF \E k \in DOMAIN hosts : get_image(cloud, get_image_name(hosts[k].name)) = <<>>
        THEN { [cloud |-> cloud, raised |-> "Image does not exist"] }
        ELSE LoadAll(cloud, hosts, 1)

\* A call of load_snapshot(host, wait) on a server of the cloud.
LoadSnapshot ==
    /\ pc = "calling"
    /\ call.op = "load_snapshot"
    /\ \E status \in { "ACTIVE", "ERROR" } :
          LET loaded == load_snapshot(compute, Server(compute, call.host), status)
          IN  /\ compute' = loaded.cloud
              /\ raised' = loaded.raised
              /\ pc' = IF loaded.raised = "none" THEN "returned" ELSE "error"
    /\ UNCHANGED <<generation, invocation, deployer, host_deployer, host_builder,
                   ansible_runner, clock>>

\* A call of load_all_snapshots.
LoadAllSnapshots ==
    /\ pc = "calling"
    /\ call.op = "load_all_snapshots"
    /\ \E loaded \in load_all_snapshots(compute) :
          /\ compute' = loaded.cloud
          /\ raised' = loaded.raised
          /\ pc' = IF loaded.raised = "none" THEN "returned" ELSE "error"
    /\ UNCHANGED <<generation, invocation, deployer, host_deployer, host_builder,
                   ansible_runner, clock>>

\* rebuild_error_hosts is entered: the hosts in ERROR are listed.
RebuildErrorHosts ==
    /\ pc = "calling"
    /\ call.op = "rebuild_error_hosts"
    /\ deployer' = [name |-> "rebuild_error_hosts", error_hosts |-> get_error_hosts(compute),
                    k |-> 0]
    /\ pc' = "rebuild_error_hosts"
    /\ UNCHANGED <<generation, invocation, compute, host_deployer, host_builder,
                   ansible_runner, clock, raised>>

\* One iteration of the loop: delete_server(host.id, wait=True), then
\* load_snapshot(host.private_v4, wait=True).
RebuildErrorHost ==
    /\ pc = "rebuild_error_hosts"
    /\ deployer.k < Len(deployer.error_hosts)
    /\ \E status \in { "ACTIVE", "ERROR" } :
          LET host == deployer.error_hosts[deployer.k + 1]
              loaded == load_snapshot(delete_server(compute, host.id), host.private_v4, status)
          IN  /\ compute' = loaded.cloud
              /\ raised' = loaded.raised
              /\ pc' = IF loaded.raised = "none" THEN "rebuild_error_hosts" ELSE "error"
    /\ deployer' = [deployer EXCEPT !.k = @ + 1]
    /\ UNCHANGED <<generation, invocation, host_deployer, host_builder,
                   ansible_runner, clock>>

\* After the loop: raise if get_error_hosts still lists a host.
RebuildErrorCheck ==
    /\ pc = "rebuild_error_hosts"
    /\ deployer.k = Len(deployer.error_hosts)
    /\ IF get_error_hosts(compute) # <<>>
       THEN /\ pc' = "error"
            /\ raised' = "Error hosts still exist after rebuild"
       ELSE /\ pc' = "returned"
            /\ UNCHANGED raised
    /\ UNCHANGED <<generation, invocation, orchestration>>

(***************************************************************************)
(* SpecRestore: one call of load_snapshot, load_all_snapshots or           *)
(* rebuild_error_hosts in a cloud of up to three servers, some in ERROR,   *)
(* some with a snapshot image.                                             *)
(***************************************************************************)
RestoreHosts == { 1, 2, 3 }

RECURSIVE ImagesFor(_)
ImagesFor(hosts) ==
    IF hosts = {} THEN <<>>
    ELSE LET first == CHOOSE h \in hosts : \A other \in hosts : h <= other
             rest == ImagesFor(hosts \ { first })
         IN  << [id |-> Len(rest) + 1, name |-> get_image_name(first), server |-> first] >>
             \o rest

InitRestore ==
    /\ \E servers \in SUBSET RestoreHosts :
       \E statuses \in [servers -> { "ACTIVE", "ERROR" }] :
       \E imaged \in SUBSET RestoreHosts :
          /\ compute = ImageCloud(statuses, ImagesFor(imaged))
          /\ call \in { [op |-> "load_snapshot", host |-> h] : h \in servers } \cup
                      { [op |-> "load_all_snapshots", host |-> 0],
                        [op |-> "rebuild_error_hosts", host |-> 0] }
    /\ result = NoFrame
    /\ deployer = NoFrame
    /\ host_deployer = NoFrame
    /\ host_builder = NoFrame
    /\ ansible_runner = NoFrame
    /\ clock = 0
    /\ generator = NoGenerator
    /\ topology = NoTopology
    /\ attack_paths = <<>>
    /\ previous_paths = <<>>
    /\ attack_graph = EmptyGraph
    /\ rng = NoRng
    /\ pc = "calling"
    /\ raised = "none"

NextRestore ==
    \/ LoadSnapshot
    \/ LoadAllSnapshots
    \/ RebuildErrorHosts
    \/ RebuildErrorHost
    \/ RebuildErrorCheck

SpecRestore == InitRestore /\ [][NextRestore]_vars

\* C22: a call of load_snapshot for a host without an image of its snapshot
\* name raises, and a call that returns has rebuilt the host.
C22_LoadRaisesWithoutImage ==
    (call.op = "load_snapshot" /\ pc \in { "returned", "error" }) =>
       /\ get_image(compute, get_image_name(call.host)) = <<>> => pc = "error"
       /\ pc = "returned" => compute.rebuilds = << call.host >>

\* C23: when rebuild_error_hosts has ended, every host that was in ERROR
\* has been deleted once and rebuilt once, and the call has returned only
\* with no host in ERROR.
C23_ErrorHostsRebuiltOnce ==
    (call.op = "rebuild_error_hosts" /\ pc \in { "returned", "error" }) =>
       /\ \A k \in DOMAIN deployer.error_hosts :
             LET id == deployer.error_hosts[k].id
             IN  /\ Len(SelectSeq(compute.deleted, LAMBDA d : d = id)) = 1
                 /\ Len(SelectSeq(compute.rebuilds, LAMBDA d : d = id)) = 1
       /\ pc = "returned" => get_error_hosts(compute) = <<>>
       /\ (pc = "error" /\ raised = "Error hosts still exist after rebuild") =>
             get_error_hosts(compute) # <<>>

(***************************************************************************)
(* The create steps of the deployers (network_deployer.py,                 *)
(* manage_network_deployer.py, attacker_network_deployer.py,               *)
(* host_deployer.py).  The cloud is the set of the names that exist in it  *)
(* (networks, security groups, routers, servers, images) and the list of   *)
(* the creating calls made.                                                *)
(***************************************************************************)
ResourceCloud(existing) == [name |-> "cloud", existing |-> existing, calls |-> <<>>]

\* network_service.find_network / find_security_group / find_router,
\* compute_service.find_server / find_image
find_resource(cloud, name) == name \in cloud.existing

\* a creating call (create_network, create_security_group, create_router,
\* create_server), with what it creates along (subnet, rules, interfaces)
create_resource(cloud, name, with) ==
    [cloud EXCEPT !.existing = @ \cup { name },
                  !.calls = @ \o << name >> \o with]

CreateOutcome(cloud, error) == [cloud |-> cloud, raised |-> error]

\* _create_openstack_network(name, description, cidr) for a subnet
create_openstack_network(cloud, subnet) ==
    IF find_resource(cloud, subnet)
    THEN CreateOutcome(cloud, "Network already exists")
    ELSE CreateOutcome(create_resource(cloud, subnet, << "subnet" >>), "none")

\* _create_subnet_security_group(subnet, topology)
create_subnet_security_group(cloud, sg_name) ==
    IF find_resource(cloud, sg_name)
    THEN CreateOutcome(cloud, "Security group already exists")
    ELSE CreateOutcome(create_resource(cloud, sg_name, << "rule" >>), "none")

\* _setup_routing
setup_routing(cloud) ==
    IF ~find_resource(cloud, "external")
    THEN CreateOutcome(cloud, "External network not found")
    ELSE IF find_resource(cloud, "router")
    THEN CreateOutcome(cloud, "Router already exists")
    ELSE CreateOutcome(create_resource(cloud, "router", << "interface" >>), "none")

\* _create_talk_to_manage_security_group: an existing group is returned
create_talk_to_manage_security_group(cloud) ==
    IF find_resource(cloud, "talk_to_manage")
    THEN CreateOutcome(cloud, "none")
    ELSE CreateOutcome(create_resource(cloud, "talk_to_manage", << "rule", "rule" >>), "none")

\* _create_manage_freedom_security_group: an existing group is returned
create_manage_freedom_security_group(cloud) ==
    IF find_resource(cloud, "manage_freedom")
    THEN CreateOutcome(cloud, "none")
    ELSE CreateOutcome(create_resource(cloud, "manage_freedom", << "rule", "rule" >>), "none")

\* _create_management_network
create_management_network(cloud) ==
    IF find_resource(cloud, "manage_network")
    THEN CreateOutcome(cloud, "Network already exists")
    ELSE CreateOutcome(create_resource(cloud, "manage_network", << "subnet" >>), "none")

\* _create_management_host(network), up to create_server
create_management_host(cloud) ==
    IF find_resource(cloud, "manage_host")
    THEN CreateOutcome(cloud, "Management host already exists")
    ELSE IF ~find_resource(cloud, "base_image")
    THEN CreateOutcome(cloud, "image not found")
    ELSE CreateOutcome(create_resource(cloud, "manage_host", << "floating_ip" >>), "none")

\* _create_attacker_security_groups
create_attacker_security_groups(cloud) ==
    IF find_resource(cloud, "attacker_freedom")
    THEN CreateOutcome(cloud, "Security group already exists")
    ELSE CreateOutcome(create_resource(cloud, "attacker_freedom",
                                       << "rule", "rule", "rule", "rule", "rule", "rule" >>),
                       "none")

\* _create_attacker_network
create_attacker_network(cloud) ==
    IF find_resource(cloud, "attacker_network")
    THEN CreateOutcome(cloud, "Network already exists")
    ELSE CreateOutcome(create_resource(cloud, "attacker_network", << "subnet" >>), "none")

\* _create_attacker_host(network, use_base_image)
create_attacker_host(cloud) ==
    IF find_resource(cloud, "attacker_host")
    THEN CreateOutcome(cloud, "Attacker host already exists")
    ELSE IF ~find_resource(cloud, "base_image")
    THEN CreateOutcome(cloud, "image not found")
    ELSE CreateOutcome(create_resource(cloud, "attacker_host", <<>>), "none")

\* _deploy_host(host): the instance of a topology host, on the network of
\* its subnet
deploy_host(cloud, host, subnet) ==
    IF find_resource(cloud, host)
    THEN CreateOutcome(cloud, "Instance already exists")
    ELSE IF ~find_resource(cloud, subnet)
    THEN CreateOutcome(cloud, "Could not find network for host")
    ELSE IF ~find_resource(cloud, "base_image")
    THEN CreateOutcome(cloud, "No image found")
    ELSE CreateOutcome(create_resource(cloud, host, <<>>), "none")

\* The name a create step creates.
CreatedName ==
    [ create_openstack_network |-> "subnet_a",
      create_subnet_security_group |-> "subnet_a_sg",
      setup_routing |-> "router",
      create_talk_to_manage_security_group |-> "talk_to_manage",
      create_manage_freedom_security_group |-> "manage_freedom",
      create_management_network |-> "manage_network",
      create_management_host |-> "manage_host",
      create_attacker_security_groups |-> "attacker_freedom",
      create_attacker_network |-> "attacker_network",
      create_attacker_host |-> "attacker_host",
      deploy_host |-> "host_a" ]

\* What a step does to the cloud.
create_step(cloud, step) ==
    CASE step = "create_openstack_network" -> create_openstack_network(cloud, "subnet_a")
      [] step = "create_subnet_security_group" -> create_subnet_security_group(cloud, "subnet_a_sg")
      [] step = "setup_routing" -> setup_routing(cloud)
      [] step = "create_talk_to_manage_security_group" -> create_talk_to_manage_security_group(cloud)
      [] step = "create_manage_freedom_security_group" -> create_manage_freedom_security_group(cloud)
      [] step = "create_management_network" -> create_management_network(cloud)
      [] step = "create_management_host" -> create_management_host(cloud)
      [] step = "create_attacker_security_groups" -> create_attacker_security_groups(cloud)
      [] step = "create_attacker_network" -> create_attacker_network(cloud)
      [] step = "create_attacker_host" -> create_attacker_host(cloud)
      [] step = "deploy_host" -> deploy_host(cloud, "host_a", "subnet_a")

\* A create step is called; its frame keeps what the existence check found.
CreateCall ==
    /\ pc = "calling"
    /\ call.op \in DOMAIN CreatedName
    /\ deployer' = [name |-> "create", step |-> call.op,
                    existing |-> find_resource(compute, CreatedName[call.op])]
    /\ pc' = "create"
    /\ UNCHANGED <<generation, invocation, compute, host_deployer, host_builder,
                   ansible_runner, clock, raised>>

\* The step runs to its end.
CreateStep ==
    /\ pc = "create"
    /\ LET outcome == create_step(compute, deployer.step)
       IN  /\ compute' = outcome.cloud
           /\ raised' = outcome.raised
           /\ pc' = IF outcome.raised = "none" THEN "returned" ELSE "error"
    /\ UNCHANGED <<generation, invocation, deployer, host_deployer, host_builder,
                   ansible_runner, clock>>

(***************************************************************************)
(* SpecCreate: one create step, called in a cloud where any of the names   *)
(* may exist already.                                                      *)
(***************************************************************************)
CloudNames ==
    { CreatedName[step] : step \in DOMAIN CreatedName } \cup { "external", "base_image" }

InitCreate ==
    /\ \E existing \in SUBSET CloudNames : compute = ResourceCloud(existing)
    /\ \E step \in DOMAIN CreatedName : call = [op |-> step]
    /\ result = NoFrame
    /\ deployer = NoFrame
    /\ host_deployer = NoFrame
    /\ host_builder = NoFrame
    /\ ansible_runner = NoFrame
    /\ clock = 0
    /\ generator = NoGenerator
    /\ topology = NoTopology
    /\ attack_paths = <<>>
    /\ previous_paths = <<>>
    /\ attack_graph = EmptyGraph
    /\ rng = NoRng
    /\ pc = "calling"
    /\ raised = "none"

NextCreate ==
    \/ CreateCall
    \/ CreateStep

SpecCreate == InitCreate /\ [][NextCreate]_vars

\* C24: a create step called when its name exists already raises and makes
\* no creating call.
C24_CreateExistingRaises ==
    (pc \in { "returned", "error" } /\ deployer.name = "create" /\ deployer.existing) =>
       /\ pc = "error"
       /\ compute.calls = <<>>

(***************************************************************************)
(* Further claims about the attack graph (SpecGraph).                      *)
(***************************************************************************)
\* The steps of all paths, in the order build_attack_graph walks them.
AllSteps(paths) == Flatten([i \in DOMAIN paths |-> paths[i].steps])

\* The identities the paths refer to: their starts and their steps' targets.
PathIdentities(paths) ==
    { <<paths[i].start_host_id, paths[i].start_user_id>> : i \in DOMAIN paths } \cup
    { <<get_target_host_id(step), step.to_user_id>> : step \in Range(AllSteps(paths)) }

\* C25: the built graph has one node per identity the paths refer to, no
\* two nodes with the same identity, and one edge per step, in the order of
\* the steps; the edge of a step ends at the node of the step's target
\* identity and is a lateral movement exactly when the step is.
C25_OneNodePerIdentityOneEdgePerStep ==
    pc = "built" =>
       LET steps == AllSteps(attack_paths)
           nodes == attack_graph.nodes
           edges == attack_graph.edges
       IN  /\ \A i, j \in DOMAIN nodes :
                (nodes[i].host_id = nodes[j].host_id /\ nodes[i].user_id = nodes[j].user_id)
                   => i = j
           /\ NodeIdentities(attack_graph) = PathIdentities(attack_paths)
           /\ Len(edges) = Len(steps)
           /\ \A k \in DOMAIN edges :
                /\ k \in DOMAIN steps
                /\ edges[k].is_lateral_movement = (steps[k].kind = "lm")
                /\ edges[k].to_node_id \in NodeIds(attack_graph)
                /\ Identity(attack_graph, edges[k].to_node_id) =
                      IF steps[k].kind = "lm"
                      THEN <<steps[k].to_host_id, steps[k].to_user_id>>
                      ELSE <<steps[k].host_id, steps[k].to_user_id>>

\* Two paths that share identities, with a lateral movement and an
\* escalation among their steps, have been built into a graph.
C25_Witness ==
    /\ pc = "built"
    /\ Len(attack_paths) = 2
    /\ Len(attack_graph.nodes) < Len(attack_graph.edges) + 1
    /\ \E k \in DOMAIN attack_graph.edges : attack_graph.edges[k].is_lateral_movement
    /\ \E k \in DOMAIN attack_graph.edges : ~attack_graph.edges[k].is_lateral_movement

(***************************************************************************)
(* SpecMerge: a graph is built and _merge_to_node is applied to a pair of  *)
(* its nodes.                                                              *)
(***************************************************************************)
MergeToNode ==
    /\ pc = "built"
    /\ \E base_node, node_to_merge \in Range(attack_graph.nodes) :
          /\ base_node.id # node_to_merge.id
          /\ LET r == merge_to_node(attack_graph, base_node, node_to_merge)
             IN  /\ attack_graph' = r.graph
                 /\ raised' = r.raised
          /\ call' = [name |-> "merge_to_node", base_node |-> base_node,
                      node_to_merge |-> node_to_merge]
    /\ pc' = "merged"
    /\ UNCHANGED <<generator, topology, attack_paths, previous_paths, rng, result>>
    /\ UNCHANGED orchestration

NextMerge == BuildAttackGraph \/ MergeToNode

SpecMerge == InitGraph /\ [][NextMerge]_vars

\* C26: after a merge the merged node is in neither nodes nor adjacency,
\* both ends of every edge are nodes of the graph, and every edge is listed
\* in the adjacency list of its from-node.
C26_MergeLeavesNoDanglingHandle ==
    pc = "merged" =>
       /\ call.node_to_merge.id \notin NodeIds(attack_graph)
       /\ call.node_to_merge.id \notin DOMAIN attack_graph.adjacency
       /\ \A k \in DOMAIN attack_graph.edges :
             LET edge == attack_graph.edges[k]
             IN  /\ edge.from_node_id \in NodeIds(attack_graph)
                 /\ edge.to_node_id \in NodeIds(attack_graph)
                 /\ edge.from_node_id \in DOMAIN attack_graph.adjacency
                 /\ edge.id \in Range(attack_graph.adjacency[edge.from_node_id])

(***************************************************************************)
(* Further claims about the network generator (SpecGen).                   *)
(***************************************************************************)
\* C27: once the vulnerabilities are applied, the pruned graph has as many
\* edges as the graph built from the paths, and no host lists a BY_HOST
\* vulnerability more than once.
C27_PruneKeepsEdgesInstallsOnce ==
    pc \in { "applied", "returned" } =>
       /\ Len(attack_graph.edges) = Len(build_attack_graph(attack_paths).edges)
       /\ \A host \in Range(get_all_hosts(topology, FALSE)) :
          \A v \in Range(host.vulnerabilities) :
             v.merge_strategy = "by_host" => CountOf(host.vulnerabilities, v) = 1

(***************************************************************************)
(* Further claims about the attack-path generator (SpecPaths).             *)
(***************************************************************************)
\* The identity the i-th goal resolves to.
GoalIdentity(topo, i) ==
    LET target_host == get_host_by_id(topo, topo.goals[i].target_host_id, FALSE)[1]
    IN  << target_host.id, resolve_goal_target_user(topo, topo.goals[i], target_host).id >>

\* C28: every path returned has a step, starts with a lateral movement from
\* the attacker host's root user, ends at the identity its goal resolves
\* to, and passes validate_path_continuity.
C28_PathsStartAtAttackerEndAtGoal ==
    PathsReturned =>
       \A i \in DOMAIN attack_paths :
          LET path == attack_paths[i]
              attacker_host == topology.attacker_host[1]
              last == path.steps[Len(path.steps)]
          IN  /\ Len(path.steps) >= 1
              /\ path.steps[1].kind = "lm"
              /\ path.steps[1].from_host_id = attacker_host.id
              /\ path.steps[1].from_user_id = get_root_user(attacker_host).id
              /\ << path.start_host_id, path.start_user_id >> =
                    << attacker_host.id, get_root_user(attacker_host).id >>
              /\ i \in DOMAIN topology.goals
              /\ << get_target_host_id(last), last.to_user_id >> = GoalIdentity(topology, i)
              /\ << path.target_host_id, path.target_user_id >> = GoalIdentity(topology, i)
              /\ validate_path_continuity(path)

\* A path of two movements and an escalation to the goal's user has been
\* returned, along with a path for a second goal.
C28_Witness ==
    /\ pc = "generated"
    /\ Len(attack_paths) = 2
    /\ \E i \in DOMAIN attack_paths :
          /\ Len(attack_paths[i].steps) = 3
          /\ attack_paths[i].steps[3].kind = "pe"

\* The name of the subnet of the host with the id, <<>> for a host in no
\* subnet (the attacker host).
SubnetOfHostId(topo, host_id) ==
    LET found == SelectSeq(get_all_subnets(topo),
                           LAMBDA sn : \E h \in Range(sn.hosts) : h.id = host_id)
    IN  IF found = <<>> THEN <<>> ELSE << found[1].name >>

\* C29: every lateral movement between two hosts of the topology in a
\* returned path joins hosts whose subnets can communicate, from the
\* source's subnet to the target's (a subnet can communicate with itself).
C29_HopsFollowConnections ==
    PathsReturned =>
       \A i \in DOMAIN attack_paths :
       \A k \in DOMAIN attack_paths[i].steps :
          LET step == attack_paths[i].steps[k]
          IN  step.kind = "lm" =>
                LET from_subnet == SubnetOfHostId(topology, step.from_host_id)
                    to_subnet == SubnetOfHostId(topology, step.to_host_id)
                IN  (from_subnet # <<>> /\ to_subnet # <<>>) =>
                       can_subnets_communicate(topology, from_subnet[1], to_subnet[1],
                                               <<>>, <<>>)

(***************************************************************************)
(* OpenstackNetworkDeployer._create_security_groups_for_subnet_connections *)
(* (network_deployer.py).  A security group is its name and the set of its *)
(* rules; the CIDR of a subnet stands for the subnet.                      *)
(***************************************************************************)
AnyAddress == << "cidr", "0.0.0.0/0" >>

cidr(subnet_name) == << "cidr", subnet_name >>

sg_name(subnet) == << subnet.name, "_sg" >>

\* network_service.create_security_group_rule(...), protocol tcp
SecurityGroupRule(direction, port_range_min, port_range_max, remote_ip_prefix) ==
    [direction |-> direction, protocol |-> "tcp", port_range_min |-> port_range_min,
     port_range_max |-> port_range_max, remote_ip_prefix |-> remote_ip_prefix]

FirstPort == 1

LastPort == 65535

SshPort == 22

\* _create_simple_tcp_rule(sg_id, source_subnet)
create_simple_tcp_rule(source_subnet) ==
    { SecurityGroupRule("ingress", FirstPort, LastPort, cidr(source_subnet)),
      SecurityGroupRule("egress", FirstPort, LastPort, cidr(source_subnet)) }

\* _create_internal_subnet_rules(sg_id, subnet)
create_internal_subnet_rules(subnet) ==
    { SecurityGroupRule("ingress", FirstPort, LastPort, cidr(subnet.name)),
      SecurityGroupRule("ingress", SshPort, SshPort, AnyAddress),
      SecurityGroupRule("egress", FirstPort, LastPort, cidr(subnet.name)) }

\* _create_external_subnet_rules(sg_id)
create_external_subnet_rules ==
    { SecurityGroupRule("egress", FirstPort, LastPort, AnyAddress),
      SecurityGroupRule("ingress", FirstPort, LastPort, AnyAddress) }

\* "for conn in topology.subnet_connections": the other end of every
\* connection that names the subnet at either end.
connected_subnets(subnet, topo) ==
    { topo.subnet_connections[i].to_subnet :
        i \in { j \in DOMAIN topo.subnet_connections :
                  topo.subnet_connections[j].from_subnet = subnet.name } }
    \cup
    { topo.subnet_connections[i].from_subnet :
        i \in { j \in DOMAIN topo.subnet_connections :
                  /\ topo.subnet_connections[j].from_subnet # subnet.name
                  /\ topo.subnet_connections[j].to_subnet = subnet.name } }

\* The rules _create_subnet_security_group gives the group of a subnet.
subnet_security_group_rules(subnet, topo) ==
    IF subnet.external THEN create_external_subnet_rules
    ELSE create_internal_subnet_rules(subnet) \cup
         UNION { create_simple_tcp_rule(name) :
                   name \in { n \in connected_subnets(subnet, topo) :
                                get_subnet_by_name(topo, n) # <<>> } }

\* _create_security_groups_for_subnet_connections is entered.
CreateSecurityGroups ==
    /\ pc = "calling"
    /\ call.op = "create_security_groups_for_subnet_connections"
    /\ deployer' = [name |-> "network_deployer", all_subnets |-> get_all_subnets(topology),
                    k |-> 0]
    /\ pc' = "security_groups"
    /\ UNCHANGED <<generation, invocation, compute, host_deployer, host_builder,
                   ansible_runner, clock, raised>>

\* _create_subnet_security_group(subnet, topology) for the next subnet.
CreateSubnetSecurityGroup ==
    /\ pc = "security_groups"
    /\ deployer.k < Len(deployer.all_subnets)
    /\ LET subnet == deployer.all_subnets[deployer.k + 1]
       IN  IF \E i \in DOMAIN compute.security_groups :
                 compute.security_groups[i].name = sg_name(subnet)
           THEN /\ raised' = "Security group already exists"
                /\ pc' = "error"
                /\ UNCHANGED compute
           ELSE /\ compute' = [compute EXCEPT !.security_groups =
                                 Append(@, [name |-> sg_name(subnet),
                                            rules |-> subnet_security_group_rules(subnet,
                                                                                  topology)])]
                /\ UNCHANGED <<raised, pc>>
    /\ deployer' = [deployer EXCEPT !.k = @ + 1]
    /\ UNCHANGED <<generation, invocation, host_deployer, host_builder,
                   ansible_runner, clock>>

\* Every subnet has its group.
CreateSecurityGroupsEnd ==
    /\ pc = "security_groups"
    /\ deployer.k = Len(deployer.all_subnets)
    /\ pc' = "returned"
    /\ UNCHANGED <<generation, invocation, orchestration, raised>>

(***************************************************************************)
(* SpecSecurityGroups: the security groups of a topology of three subnets  *)
(* and up to MaxConnections connections are created, in a cloud that holds *)
(* no group or the group of one subnet already.                            *)
(***************************************************************************)
InitSecurityGroups ==
    /\ topology \in RouteTopologies
    /\ compute \in { [name |-> "cloud", security_groups |-> groups] :
                       groups \in { <<>>,
                                    << [name |-> sg_name(RouteSubnets[3]), rules |-> {}] >> } }
    /\ call = [op |-> "create_security_groups_for_subnet_connections"]
    /\ result = NoFrame
    /\ deployer = NoFrame
    /\ host_deployer = NoFrame
    /\ host_builder = NoFrame
    /\ ansible_runner = NoFrame
    /\ clock = 0
    /\ generator = NoGenerator
    /\ attack_paths = <<>>
    /\ previous_paths = <<>>
    /\ attack_graph = EmptyGraph
    /\ rng = NoRng
    /\ pc = "calling"
    /\ raised = "none"

NextSecurityGroups ==
    \/ CreateSecurityGroups
    \/ CreateSubnetSecurityGroup
    \/ CreateSecurityGroupsEnd

SpecSecurityGroups == InitSecurityGroups /\ [][NextSecurityGroups]_vars

\* The group admits TCP ingress on every port from the CIDR.
AdmitsIngress(group, source) ==
    \E rule \in group.rules :
        /\ rule.direction = "ingress"
        /\ rule.port_range_min = FirstPort /\ rule.port_range_max = LastPort
        /\ rule.remote_ip_prefix \in { source, AnyAddress }

\* C30: when the groups are created, the group of a non-external subnet S
\* admits ingress from the CIDR of another non-external subnet T exactly
\* when can_subnets_communicate(T, S) is true.
C30_SecurityGroupsAgreeWithTopology ==
    pc = "returned" =>
       \A s, t \in DOMAIN topology.subnets :
          LET S == topology.subnets[s]
              T == topology.subnets[t]
          IN  (s # t /\ ~S.external /\ ~T.external) =>
                 \A i \in DOMAIN compute.security_groups :
                    compute.security_groups[i].name = sg_name(S) =>
                       (AdmitsIngress(compute.security_groups[i], cidr(T.name))
                          <=> can_subnets_communicate(topology, T.name, S.name, <<>>, <<>>))

====
